---------------------------- MODULE Spec2Model ----------------------------
(***************************************************************************)
(* Model of the TimeToAct DocumentAI tokenizer and recursive-descent       *)
(* parser (src/src/embrace_ai_katas/timetoact/tokenizer.py, parser.py).    *)
(*                                                                         *)
(* A text is a sequence of characters, a character a one-character string. *)
(* Positions (pos) are 0-based as in the source; text[pos] of the source   *)
(* is text[pos + 1] here.                                                  *)
(***************************************************************************)
EXTENDS Naturals, Sequences, FiniteSets, TLC

VARIABLES
    input,      \* the text handed to Tokenizer(text) / parse(text)
    tz,         \* the running Tokenizer: text, pos, line, column, generator state
    yielded,    \* the tokens the running tokenizer has yielded so far, in order
    spans,      \* for each yielded token, <<pos before, pos after>> its read
    tkerr,      \* TRUE once _read_tag has raised ValueError
    current,    \* Parser.current of the running parser
    stack,      \* the call stack of parser routines, innermost last
    ret,        \* the value the routine that returned last has returned
    exc,        \* the exception being propagated, NoExc if none
    raised,     \* every exception raised so far, in order
    outcome,    \* of parse(text): "running", "returned", or the exception's type
    result      \* the Block parse(text) has returned, NoResult before

tokvars == <<input, tz, yielded, spans, tkerr>>
parservars == <<current, stack, ret, exc, raised, outcome, result>>
vars == <<input, tz, yielded, spans, tkerr, current, stack, ret, exc, raised,
          outcome, result>>

----------------------------------------------------------------------------
(* Characters and character classes                                        *)

NL == "\n"
CR == "\r"
TAB == "\t"
QUOTE == "\""

\* \w of TAG_PATTERN / ATTR_PATTERN, restricted to the characters in use
WordChars ==
    {"a", "b", "c", "d", "e", "f", "g", "h", "i", "j", "k", "l", "m", "n",
     "o", "p", "q", "r", "s", "t", "u", "v", "w", "x", "y", "z",
     "0", "1", "2", "3", "4", "5", "6", "7", "8", "9", "_"}

\* \s of TAG_PATTERN, and the characters str.strip() removes
SpaceChars == {" ", TAB, NL, CR}

Digits == {"0", "1", "2", "3", "4", "5", "6", "7", "8", "9"}

----------------------------------------------------------------------------
(* Generic helpers on character sequences                                  *)

\* s[i:j] of Python for 0 <= i, j (0-based, j exclusive), clipped to s
Slice(s, i, j) ==
    LET hi == IF j > Len(s) THEN Len(s) ELSE j
    IN IF i >= hi THEN << >> ELSE SubSeq(s, i + 1, hi)

\* the least index k >= from (1-based) with s[k] \notin cls, Len(s)+1 if none
RECURSIVE RunEnd(_, _, _)
RunEnd(s, from, cls) ==
    IF from > Len(s) \/ s[from] \notin cls THEN from
    ELSE RunEnd(s, from + 1, cls)

\* the least index k >= from (1-based) with s[k] = c, 0 if none
RECURSIVE IndexOf(_, _, _)
IndexOf(s, from, c) ==
    IF from > Len(s) THEN 0
    ELSE IF s[from] = c THEN from
    ELSE IndexOf(s, from + 1, c)

\* s.find(sub, from): the least 1-based index k >= from where sub occurs in
\* s, 0 if none (the empty sub occurs everywhere)
RECURSIVE FindSub(_, _, _)
FindSub(s, sub, from) ==
    IF from + Len(sub) - 1 > Len(s) THEN 0
    ELSE IF SubSeq(s, from, from + Len(sub) - 1) = sub THEN from
    ELSE FindSub(s, sub, from + 1)

\* sub in s
contains(s, sub) == FindSub(s, sub, 1) # 0

\* "".join(parts)
RECURSIVE join(_)
join(parts) ==
    IF parts = << >> THEN << >> ELSE Head(parts) \o join(Tail(parts))

\* "\n".join(parts)
RECURSIVE join_lines(_)
join_lines(parts) ==
    IF parts = << >> THEN << >>
    ELSE IF Len(parts) = 1 THEN Head(parts)
    ELSE Head(parts) \o <<NL>> \o join_lines(Tail(parts))

\* s.rstrip()
RECURSIVE rstrip(_)
rstrip(s) ==
    IF s # << >> /\ s[Len(s)] \in SpaceChars THEN rstrip(SubSeq(s, 1, Len(s) - 1))
    ELSE s

\* s.lstrip()
lstrip(s) == SubSeq(s, RunEnd(s, 1, SpaceChars), Len(s))

\* a strip that removes blanks only, as s.strip(" ") would
strip_BlanksOnly(s) ==
    LET k == RunEnd(s, 1, {" "})
        RECURSIVE r(_)
        r(u) == IF u # << >> /\ u[Len(u)] = " " THEN r(SubSeq(u, 1, Len(u) - 1)) ELSE u
    IN r(SubSeq(s, k, Len(s)))

\* s.strip()
strip(s) == rstrip(lstrip(s))

\* s.split(sep) for a non-empty sep
RECURSIVE split(_, _)
split(s, sep) ==
    LET k == FindSub(s, sep, 1)
    IN IF k = 0 THEN <<s>>
       ELSE <<SubSeq(s, 1, k - 1)>> \o split(SubSeq(s, k + Len(sep), Len(s)), sep)

\* s.startswith(prefix)
startswith(s, prefix) ==
    Len(s) >= Len(prefix) /\ SubSeq(s, 1, Len(prefix)) = prefix

----------------------------------------------------------------------------
(* Tokens                                                                  *)

TAG_OPEN == "TAG_OPEN"
TAG_CLOSE == "TAG_CLOSE"
TEXT == "TEXT"
NEWLINE == "NEWLINE"
EOF == "EOF"

\* dataclass Token; tag_name None is << >> (a matched name is never empty),
\* attributes None is << >>, a dict is its sequence of <<key, value>> writes
Token(type, value, line, column, tag_name, attributes) ==
    [type |-> type, value |-> value, line |-> line, column |-> column,
     tag_name |-> tag_name, attributes |-> attributes]

----------------------------------------------------------------------------
(* Tokenizer                                                               *)

\* Tokenizer.__init__; gen is the state of the generator tokenize() returns:
\* "running" until it has yielded the EOF token, then "finished"
Tokenizer(text) ==
    [text |-> text, pos |-> 0, line |-> 1, column |-> 1, gen |-> "running"]

NoMatch == [ok |-> FALSE, close |-> FALSE, name |-> << >>,
            attrs_str |-> << >>, end |-> 0]

\* TAG_PATTERN.match(text, pos): <(/?)(\w+)(\s+[^>]+)?>
\* end is the 0-based position just past the match
TAG_PATTERN_match(text, pos) ==
    IF pos >= Len(text) \/ text[pos + 1] # "<" THEN NoMatch
    ELSE
      LET close == pos + 2 <= Len(text) /\ text[pos + 2] = "/"
          q == IF close THEN pos + 3 ELSE pos + 2      \* 1-based start of \w+
          j == RunEnd(text, q, WordChars)              \* 1-based end of \w+
          k == IndexOf(text, j, ">")
      IN IF j = q \/ j > Len(text) THEN NoMatch
         ELSE IF text[j] = ">"
              THEN [ok |-> TRUE, close |-> close, name |-> SubSeq(text, q, j - 1),
                    attrs_str |-> << >>, end |-> j]
         ELSE IF text[j] \in SpaceChars /\ k # 0 /\ k - j >= 2
              THEN [ok |-> TRUE, close |-> close, name |-> SubSeq(text, q, j - 1),
                    attrs_str |-> SubSeq(text, j, k - 1), end |-> k]
         ELSE NoMatch

\* a tag reader that trusts any "<" (what _at_tag would be without the pattern)
at_tag_AnyAngle(t) ==
    t.text[t.pos + 1] = "<"

\* Tokenizer._at_tag
at_tag(t) ==
    t.text[t.pos + 1] = "<" /\ TAG_PATTERN_match(t.text, t.pos).ok

\* Tokenizer._at_newline
at_newline(t) ==
    t.text[t.pos + 1] \in {CR, NL}

\* Tokenizer._advance
RECURSIVE Tokenizer_advance(_, _)
Tokenizer_advance(t, count) ==
    IF count = 0 THEN t
    ELSE
      LET t1 == IF t.pos < Len(t.text)
                THEN IF t.text[t.pos + 1] = NL
                     THEN [t EXCEPT !.line = @ + 1, !.column = 1, !.pos = @ + 1]
                     ELSE [t EXCEPT !.column = @ + 1, !.pos = @ + 1]
                ELSE t
      IN Tokenizer_advance(t1, count - 1)

\* ATTR_PATTERN.finditer(attrs_str) from 1-based index i: (\w+)="([^"]*)"
RECURSIVE parse_attributes_from(_, _)
parse_attributes_from(s, i) ==
    IF i > Len(s) THEN << >>
    ELSE
      LET j == RunEnd(s, i, WordChars)
          k == IndexOf(s, j + 2, QUOTE)
      IN IF j > i /\ j + 1 <= Len(s) /\ s[j] = "=" /\ s[j + 1] = QUOTE /\ k # 0
         THEN << <<SubSeq(s, i, j - 1), SubSeq(s, j + 2, k - 1)>> >>
              \o parse_attributes_from(s, k + 1)
         ELSE parse_attributes_from(s, i + 1)

\* Tokenizer._parse_attributes
parse_attributes(attrs_str) ==
    parse_attributes_from(attrs_str, 1)

\* Tokenizer._read_tag: the token and the tokenizer after it, or the ValueError
read_tag(t) ==
    LET match == TAG_PATTERN_match(t.text, t.pos)
        full_tag == Slice(t.text, t.pos, match.end)
        attributes == IF match.attrs_str # << >>
                      THEN parse_attributes(match.attrs_str) ELSE << >>
    IN IF ~match.ok
       THEN [raised |-> TRUE, tok |-> Token(EOF, << >>, 0, 0, << >>, << >>), t |-> t]
       ELSE [raised |-> FALSE,
             tok |-> Token(IF match.close THEN TAG_CLOSE ELSE TAG_OPEN, full_tag,
                           t.line, t.column, match.name, attributes),
             t |-> Tokenizer_advance(t, Len(full_tag))]

\* Tokenizer._read_newline
read_newline(t) ==
    LET crlf == /\ t.text[t.pos + 1] = CR
                /\ t.pos + 1 < Len(t.text)
                /\ t.text[t.pos + 2] = NL
    IN [raised |-> FALSE,
        tok |-> Token(NEWLINE, <<NL>>, t.line, t.column, << >>, << >>),
        t |-> Tokenizer_advance(t, IF crlf THEN 2 ELSE 1)]

\* the while loop of Tokenizer._read_text
RECURSIVE read_text_loop(_)
read_text_loop(t) ==
    IF t.pos < Len(t.text) /\ ~at_tag(t) /\ ~at_newline(t)
    THEN read_text_loop(Tokenizer_advance(t, 1))
    ELSE t

\* Tokenizer._read_text
read_text(t) ==
    LET start_pos == t.pos
        start_column == t.column
        t1 == read_text_loop(t)
    IN [raised |-> FALSE,
        tok |-> Token(TEXT, Slice(t.text, start_pos, t1.pos), t1.line,
                      start_column, << >>, << >>),
        t |-> t1]

\* a generator whose loop test is off by one: it stops before the last character
tokenize_StopsEarly(t) ==
    IF t.pos + 1 < Len(t.text)
    THEN IF at_tag(t) THEN read_tag(t)
         ELSE IF at_newline(t) THEN read_newline(t)
         ELSE read_text(t)
    ELSE [raised |-> FALSE,
          tok |-> Token(EOF, << >>, t.line, t.column, << >>, << >>),
          t |-> [t EXCEPT !.gen = "finished"]]

\* one resumption of the generator Tokenizer.tokenize, up to its next yield
tokenize(t) ==
    IF t.pos < Len(t.text)
    THEN IF at_tag(t) THEN read_tag(t)
         ELSE IF at_newline(t) THEN read_newline(t)
         ELSE read_text(t)
    ELSE [raised |-> FALSE,
          tok |-> Token(EOF, << >>, t.line, t.column, << >>, << >>),
          t |-> [t EXCEPT !.gen = "finished"]]

----------------------------------------------------------------------------
(* The document tree (models.py)                                           *)

\* Python's None where a string may stand; no character is "None", so no
\* text equals it
None == <<"None">>

\* a plain str in a body (ContentNode)
TextNode(s) == [kind |-> "text", value |-> s]

\* models.Block
Block(number, head, body) ==
    [kind |-> "block", number |-> number, head |-> head, body |-> body]

\* models.Dictionary; items is the dict as its <<key, value>> pairs in
\* insertion order, keys unique
Dictionary(items) == [kind |-> "dict", items |-> items]

\* models.ListBlock
ListBlock(items) == [kind |-> "list", items |-> items]

\* no value: before parse returns, and before any routine has returned
NoResult == [kind |-> "none"]

----------------------------------------------------------------------------
(* Exceptions                                                              *)

NoExc == [type |-> "none", message |-> "", line |-> 0, column |-> 0]

\* a ParseError that takes the token's column for its line and its line for
\* its column
ParseError_Swapped(message, token) ==
    [type |-> "ParseError", message |-> message,
     line |-> token.column, column |-> token.line]

\* ParseError(message, token)
ParseError(message, token) ==
    [type |-> "ParseError", message |-> message,
     line |-> token.line, column |-> token.column]

\* the ValueError str.split raises for an empty separator
EmptySeparatorError ==
    [type |-> "ValueError", message |-> "empty separator", line |-> 0, column |-> 0]

\* the ValueError _read_tag raises
InvalidTagError ==
    [type |-> "ValueError", message |-> "Invalid tag", line |-> 0, column |-> 0]

----------------------------------------------------------------------------
(* Tag names and literals of the parser                                    *)

HEAD == <<"h", "e", "a", "d">>
BLOCK == <<"b", "l", "o", "c", "k">>
DICT == <<"d", "i", "c", "t">>
LIST == <<"l", "i", "s", "t">>
SEP == <<"s", "e", "p">>
KIND == <<"k", "i", "n", "d">>
NoTag == << >>

\* non-ASCII characters are written by name
BULLET == "bullet"
A_CIRCUMFLEX == "a-circumflex"
EURO_SIGN == "euro-sign"
CENT_SIGN == "cent-sign"

\* the literal of line 267, startswith("... "): four characters
BULLET_MARKER == <<A_CIRCUMFLEX, EURO_SIGN, CENT_SIGN, " ">>
SUB_MARKER == <<"o", " ">>
DICT_OPEN_LITERAL == <<"<", "d", "i", "c", "t">>
DICT_CLOSE_LITERAL == <<"<", "/", "d", "i", "c", "t", ">">>

\* the name of a tag as the messages print it
TagLabel(tag_name) ==
    CASE tag_name = HEAD -> "head"
      [] tag_name = BLOCK -> "block"
      [] tag_name = DICT -> "dict"
      [] tag_name = LIST -> "list"
      [] OTHER -> "?"

----------------------------------------------------------------------------
(* Parser: the routines' pure parts                                        *)

\* attributes[key] when attributes is a dict holding key: the last write
RECURSIVE attr_get(_, _, _)
attr_get(attributes, key, default) ==
    IF attributes = << >> THEN default
    ELSE LET last == attributes[Len(attributes)]
         IN IF last[1] = key THEN last[2]
            ELSE attr_get(SubSeq(attributes, 1, Len(attributes) - 1), key, default)

\* Parser._is_opening_tag
is_opening_tag(tok, tag_name) ==
    tok.type = TAG_OPEN /\ tok.tag_name = tag_name

\* Parser._is_closing_tag
is_closing_tag(tok, tag_name) ==
    tok.type = TAG_CLOSE /\ tok.tag_name = tag_name

\* the test of Parser._expect_tag: TRUE when it advances, FALSE when it raises
expect_tag_ok(tok, tag_name, is_closing) ==
    /\ tok.type = (IF is_closing THEN TAG_CLOSE ELSE TAG_OPEN)
    /\ tok.tag_name = tag_name

\* the message of the ParseError Parser._expect_tag raises
expect_tag_message(tag_name, is_closing) ==
    CASE tag_name = HEAD /\ is_closing -> "Expected closing head tag"
      [] tag_name = HEAD /\ ~is_closing -> "Expected opening head tag"
      [] tag_name = BLOCK /\ is_closing -> "Expected closing block tag"
      [] tag_name = BLOCK /\ ~is_closing -> "Expected opening block tag"
      [] tag_name = DICT /\ is_closing -> "Expected closing dict tag"
      [] tag_name = DICT /\ ~is_closing -> "Expected opening dict tag"
      [] tag_name = LIST /\ is_closing -> "Expected closing list tag"
      [] tag_name = LIST /\ ~is_closing -> "Expected opening list tag"
      [] OTHER -> "Expected tag"

\* a loop that appends the paragraphs as split, untrimmed
RECURSIVE flush_paragraphs_Untrimmed(_, _)
flush_paragraphs_Untrimmed(paragraphs, content) ==
    IF paragraphs = << >> THEN content
    ELSE LET para == Head(paragraphs)
         IN flush_paragraphs_Untrimmed(Tail(paragraphs),
                IF para # << >> THEN Append(content, TextNode(para)) ELSE content)

\* the for loop of Parser._flush_text
RECURSIVE flush_paragraphs(_, _)
flush_paragraphs(paragraphs, content) ==
    IF paragraphs = << >> THEN content
    ELSE LET para == strip(Head(paragraphs))
         IN flush_paragraphs(Tail(paragraphs),
                IF para # << >> THEN Append(content, TextNode(para)) ELSE content)

\* Parser._flush_text: the content list after the call
flush_text(text_buffer, content) ==
    IF text_buffer = << >> THEN content
    ELSE LET text == strip(join(text_buffer))
         IN IF text # << >>
            THEN flush_paragraphs(split(text, <<NL, NL>>), content)
            ELSE content

\* a write that leaves the value of a key already present as it is
RECURSIVE dict_set_KeepFirst(_, _, _)
dict_set_KeepFirst(items, key, value) ==
    IF items = << >> THEN << <<key, value>> >>
    ELSE IF Head(items)[1] = key THEN items
    ELSE <<Head(items)>> \o dict_set_KeepFirst(Tail(items), key, value)

\* dictionary.items[key] = value
RECURSIVE dict_set(_, _, _)
dict_set(items, key, value) ==
    IF items = << >> THEN << <<key, value>> >>
    ELSE IF Head(items)[1] = key THEN << <<key, value>> >> \o Tail(items)
    ELSE <<Head(items)>> \o dict_set(Tail(items), key, value)

\* the loop "for line in lines" of Parser._parse_dict; raised when
\* line.split(separator, 1) raises ValueError for the empty separator
RECURSIVE dict_fill(_, _, _)
dict_fill(lines, separator, items) ==
    IF lines = << >> THEN [raised |-> FALSE, items |-> items]
    ELSE
      LET line == Head(lines)
          k == FindSub(line, separator, 1)
      IN IF line = << >> THEN dict_fill(Tail(lines), separator, items)
         ELSE IF contains(line, separator)
              THEN IF separator = << >>
                   THEN [raised |-> TRUE, items |-> items]
                   ELSE dict_fill(Tail(lines), separator,
                            dict_set(items,
                                strip(SubSeq(line, 1, k - 1)),
                                strip(SubSeq(line, k + Len(separator), Len(line)))))
         ELSE dict_fill(Tail(lines), separator, dict_set(items, strip(line), << >>))

\* number.count(".")
RECURSIVE count_dots(_)
count_dots(number) ==
    IF number = << >> THEN 0
    ELSE (IF Head(number) = "." THEN 1 ELSE 0) + count_dots(Tail(number))

\* the index just past the longest (\.\d+)* that starts at index i
RECURSIVE dotted_end(_, _)
dotted_end(line, i) ==
    IF i + 1 <= Len(line) /\ line[i] = "." /\ line[i + 1] \in Digits
    THEN dotted_end(line, RunEnd(line, i + 1, Digits))
    ELSE i

\* re.match(r"^(\d+(?:\.\d+)*)\.\s+(.*)$", line) for a line without "\n"
ordered_match(line) ==
    LET d == RunEnd(line, 1, Digits)
        e == dotted_end(line, d)
        w == RunEnd(line, e + 1, SpaceChars)
    IN IF d > 1 /\ e <= Len(line) /\ line[e] = "." /\ w > e + 1
       THEN [ok |-> TRUE, number |-> SubSeq(line, 1, e - 1),
             text |-> SubSeq(line, w, Len(line))]
       ELSE [ok |-> FALSE, number |-> << >>, text |-> << >>]

\* the item a path of indices names: root_items[p1].body[p2].items[p3]...
RECURSIVE item_at(_, _)
item_at(items, path) ==
    LET it == items[path[1]]
    IN IF Len(path) = 1 THEN it
       ELSE item_at(it.body[path[2]].items, SubSeq(path, 3, Len(path)))

\* the items after the item a path names has been replaced by blk: a write
\* through the reference the ancestor stack holds
RECURSIVE update_at(_, _, _)
update_at(items, path, blk) ==
    IF Len(path) = 1 THEN [items EXCEPT ![path[1]] = blk]
    ELSE
      LET it == items[path[1]]
          sub == it.body[path[2]]
          sub1 == [sub EXCEPT !.items = update_at(sub.items, SubSeq(path, 3, Len(path)), blk)]
          it1 == [it EXCEPT !.body = [it.body EXCEPT ![path[2]] = sub1]]
      IN [items EXCEPT ![path[1]] = it1]

\* a loop that pops only the entries of a deeper level
RECURSIVE pop_to_level_Deeper(_, _)
pop_to_level_Deeper(ostack, level) ==
    IF ostack # << >> /\ count_dots(ostack[Len(ostack)].number) > level
    THEN pop_to_level_Deeper(SubSeq(ostack, 1, Len(ostack) - 1), level)
    ELSE ostack

\* the loop "while stack and stack[-1][0].count(".") >= level: stack.pop()"
RECURSIVE pop_to_level(_, _)
pop_to_level(ostack, level) ==
    IF ostack # << >> /\ count_dots(ostack[Len(ostack)].number) >= level
    THEN pop_to_level(SubSeq(ostack, 1, Len(ostack) - 1), level)
    ELSE ostack

\* a collection that stops before the line that holds the closing literal
RECURSIVE collect_dict_lines_Exclusive(_, _, _)
collect_dict_lines_Exclusive(lines, dict_lines, j) ==
    IF j < Len(lines) /\ ~contains(lines[j + 1], DICT_CLOSE_LITERAL)
    THEN collect_dict_lines_Exclusive(lines, Append(dict_lines, lines[j + 1]), j + 1)
    ELSE [dict_lines |-> dict_lines, j |-> j]

\* the loop that collects dict_lines from line i (0-based) on: the lines and
\* the 0-based index j of the first line not collected
RECURSIVE collect_dict_lines(_, _, _)
collect_dict_lines(lines, dict_lines, j) ==
    IF j < Len(lines) /\ ~contains(dict_lines[Len(dict_lines)], DICT_CLOSE_LITERAL)
    THEN collect_dict_lines(lines, Append(dict_lines, lines[j + 1]), j + 1)
    ELSE [dict_lines |-> dict_lines, j |-> j]

----------------------------------------------------------------------------
(* Parser: the call stack                                                  *)
(*                                                                         *)
(* A frame is a routine being executed: fn names it, pc is its position,   *)
(* the other fields are its locals.  The innermost frame is the last.      *)

top == stack[Len(stack)]

\* the top frame is at position pc of routine fn and nothing is being raised
At(fn, pc) ==
    /\ outcome = "running"
    /\ exc = NoExc
    /\ ~tkerr
    /\ stack # << >>
    /\ top.fn = fn
    /\ top.pc = pc

SetTop(f) == [stack EXCEPT ![Len(stack)] = f]

\* the top frame moves on as f
Goto(f) ==
    /\ stack' = SetTop(f)
    /\ UNCHANGED <<ret, outcome, result>>

\* the top frame, moved on as f, calls a routine
Call(f, callee) ==
    /\ stack' = Append(SetTop(f), callee)
    /\ UNCHANGED <<ret, outcome, result>>

\* the top frame returns v; the outermost frame is parse(text)'s own
Return(v) ==
    /\ stack' = SubSeq(stack, 1, Len(stack) - 1)
    /\ ret' = v
    /\ IF Len(stack) = 1
       THEN outcome' = "returned" /\ result' = v
       ELSE UNCHANGED <<outcome, result>>

\* the token Parser._advance puts in current when the sequence is exhausted
PlaceholderEOF == Token(EOF, << >>, 0, 0, << >>, << >>)

\* Parser._advance: next(self.tokens), StopIteration giving the placeholder
Parser_advance ==
    /\ UNCHANGED input
    /\ IF tz.gen = "finished"
       THEN /\ current' = PlaceholderEOF
            /\ UNCHANGED <<tz, yielded, spans, tkerr>>
       ELSE LET r == tokenize(tz)
            IN IF r.raised
               THEN /\ tkerr' = TRUE
                    /\ UNCHANGED <<tz, yielded, spans, current>>
               ELSE /\ current' = r.tok
                    /\ tz' = r.t
                    /\ yielded' = Append(yielded, r.tok)
                    /\ spans' = Append(spans, <<tz.pos, r.t.pos>>)
                    /\ UNCHANGED tkerr

\* no token is consumed
Stay == UNCHANGED <<input, tz, yielded, spans, tkerr, current>>

NoRaise == UNCHANGED <<exc, raised>>

\* raise e: nothing else changes; the exception then propagates (Unwind)
Raise(e) ==
    /\ exc' = e
    /\ raised' = Append(raised, e)
    /\ UNCHANGED <<stack, ret, outcome, result>>
    /\ Stay

\* frames as they are when a routine is called
ParseFrame == [fn |-> "parse", pc |-> "init", root |-> Block(None, None, << >>)]

ContentFrame(until_tag) ==
    [fn |-> "parse_content", pc |-> "loop", until_tag |-> until_tag,
     content |-> << >>, current_text |-> << >>]

HeadFrame == [fn |-> "parse_head", pc |-> "enter", head_text |-> << >>]

\* a frame whose block starts with a number
BlockFrame_Numbered ==
    [fn |-> "parse_block", pc |-> "enter", block |-> Block(<<"0">>, None, << >>)]

BlockFrame ==
    [fn |-> "parse_block", pc |-> "enter", block |-> Block(None, None, << >>)]

DictFrame ==
    [fn |-> "parse_dict", pc |-> "enter", separator |-> <<":">>,
     lines |-> << >>, current_line |-> << >>]

ListFrame ==
    [fn |-> "parse_list", pc |-> "enter", list_kind |-> <<".">>,
     content_parts |-> << >>]

NoSaved == [tz |-> Tokenizer(<< >>), current |-> PlaceholderEOF,
            yielded |-> << >>, spans |-> << >>]

OrderedFrame(lines) ==
    [fn |-> "process_ordered_list", pc |-> "loop", lines |-> lines,
     root_items |-> << >>, ostack |-> << >>, i |-> 0, j |-> 0,
     saved |-> NoSaved]

UnorderedFrame(lines) ==
    [fn |-> "process_unordered_list", pc |-> "loop", lines |-> lines,
     idx |-> 0, items |-> << >>, current_item |-> NoResult]

----------------------------------------------------------------------------
(* Parser.__init__ and Parser.parse                                        *)

\* Parser.__init__: the first _advance
Parser_init ==
    /\ At("parse", "init")
    /\ Parser_advance
    /\ NoRaise
    /\ Goto([top EXCEPT !.pc = "start"])

\* Parser.parse, lines 36-42: a head first, or the content at once
parse_start ==
    /\ At("parse", "start")
    /\ Stay
    /\ NoRaise
    /\ IF is_opening_tag(current, HEAD)
       THEN Call([top EXCEPT !.pc = "head_ret"], HeadFrame)
       ELSE Call([top EXCEPT !.pc = "body_ret"], ContentFrame(NoTag))

\* root.head = self._parse_head(), then the call of _parse_content
parse_after_head ==
    /\ At("parse", "head_ret")
    /\ Stay
    /\ NoRaise
    /\ Call([top EXCEPT !.pc = "body_ret", !.root.head = ret], ContentFrame(NoTag))

\* root.body = self._parse_content(); return root
parse_return ==
    /\ At("parse", "body_ret")
    /\ Stay
    /\ NoRaise
    /\ Return([top.root EXCEPT !.body = ret])

----------------------------------------------------------------------------
(* Parser._parse_content                                                   *)

\* a loop that, left at the end of input, advances once more
content_exit_Advances ==
    /\ At("parse_content", "loop")
    /\ \/ current.type = EOF
       \/ top.until_tag # NoTag /\ is_closing_tag(current, top.until_tag)
    /\ IF current.type = EOF THEN Parser_advance ELSE Stay
    /\ NoRaise
    /\ Return(flush_text(top.current_text, top.content))

\* the loop is left (EOF, or the awaited closing tag): flush and return
content_exit ==
    /\ At("parse_content", "loop")
    /\ \/ current.type = EOF
       \/ top.until_tag # NoTag /\ is_closing_tag(current, top.until_tag)
    /\ Stay
    /\ NoRaise
    /\ Return(flush_text(top.current_text, top.content))

\* the loop's test and the break of line 51-52 both pass: an iteration starts
InContentIteration ==
    /\ At("parse_content", "loop")
    /\ current.type # EOF
    /\ ~(top.until_tag # NoTag /\ is_closing_tag(current, top.until_tag))

\* a content loop that skips a head tag like any other stray token
content_head_skipped ==
    /\ InContentIteration
    /\ is_opening_tag(current, HEAD)
    /\ Parser_advance
    /\ NoRaise
    /\ UNCHANGED <<stack, ret, outcome, result>>

\* line 54-57
content_head_error ==
    /\ InContentIteration
    /\ is_opening_tag(current, HEAD)
    /\ Raise(ParseError("Unexpected head tag in content", current))

\* a loop that calls the nested routine with the pending text left in the
\* buffer
content_nested_NoFlush ==
    /\ InContentIteration
    /\ \/ is_opening_tag(current, BLOCK)
       \/ is_opening_tag(current, DICT)
       \/ is_opening_tag(current, LIST)
    /\ Stay
    /\ NoRaise
    /\ Call([top EXCEPT !.pc = "append_ret"],
            IF is_opening_tag(current, BLOCK) THEN BlockFrame
            ELSE IF is_opening_tag(current, DICT) THEN DictFrame
            ELSE ListFrame)

\* line 58-66: flush, then call the routine of the nested structure
content_nested ==
    /\ InContentIteration
    /\ \/ is_opening_tag(current, BLOCK)
       \/ is_opening_tag(current, DICT)
       \/ is_opening_tag(current, LIST)
    /\ Stay
    /\ NoRaise
    /\ Call([top EXCEPT !.pc = "append_ret",
                        !.content = flush_text(top.current_text, top.content),
                        !.current_text = << >>],
            IF is_opening_tag(current, BLOCK) THEN BlockFrame
            ELSE IF is_opening_tag(current, DICT) THEN DictFrame
            ELSE ListFrame)

\* content.append(<what the nested routine returned>)
content_append ==
    /\ At("parse_content", "append_ret")
    /\ Stay
    /\ NoRaise
    /\ Goto([top EXCEPT !.pc = "loop", !.content = Append(@, ret)])

NotStructureTag(tok) ==
    /\ ~is_opening_tag(tok, HEAD)
    /\ ~is_opening_tag(tok, BLOCK)
    /\ ~is_opening_tag(tok, DICT)
    /\ ~is_opening_tag(tok, LIST)

\* line 67-69
content_text ==
    /\ InContentIteration
    /\ NotStructureTag(current)
    /\ current.type = TEXT
    /\ Parser_advance
    /\ NoRaise
    /\ Goto([top EXCEPT !.current_text = Append(@, current.value)])

\* line 70-72
content_newline ==
    /\ InContentIteration
    /\ NotStructureTag(current)
    /\ current.type = NEWLINE
    /\ Parser_advance
    /\ NoRaise
    /\ Goto([top EXCEPT !.current_text = Append(@, <<NL>>)])

\* a loop that flushes the pending text when it skips a token
content_skip_Flushes ==
    /\ InContentIteration
    /\ NotStructureTag(current)
    /\ current.type \notin {TEXT, NEWLINE}
    /\ Parser_advance
    /\ NoRaise
    /\ Goto([top EXCEPT !.content = flush_text(top.current_text, top.content),
                        !.current_text = << >>])

\* line 73-74: any other token is skipped
content_skip ==
    /\ InContentIteration
    /\ NotStructureTag(current)
    /\ current.type \notin {TEXT, NEWLINE}
    /\ Parser_advance
    /\ NoRaise
    /\ UNCHANGED <<stack, ret, outcome, result>>

----------------------------------------------------------------------------
(* Parser._parse_head                                                      *)

\* line 81: self._expect_tag("head", is_closing=False)
head_enter ==
    /\ At("parse_head", "enter")
    /\ IF expect_tag_ok(current, HEAD, FALSE)
       THEN /\ Parser_advance
            /\ NoRaise
            /\ Goto([top EXCEPT !.pc = "loop"])
       ELSE Raise(ParseError(expect_tag_message(HEAD, FALSE), current))

\* a loop that keeps the newline tokens of the head as "\n"
head_step_KeepsNewlines ==
    /\ At("parse_head", "loop")
    /\ ~is_closing_tag(current, HEAD)
    /\ current.type # EOF
    /\ Parser_advance
    /\ NoRaise
    /\ Goto([top EXCEPT !.head_text =
                IF current.type = TEXT THEN Append(@, current.value)
                ELSE IF current.type = NEWLINE THEN Append(@, <<NL>>)
                ELSE @])

\* line 84-89, an iteration that does not raise
head_step ==
    /\ At("parse_head", "loop")
    /\ ~is_closing_tag(current, HEAD)
    /\ current.type # EOF
    /\ Parser_advance
    /\ NoRaise
    /\ Goto([top EXCEPT !.head_text =
                IF current.type = TEXT THEN Append(@, current.value) ELSE @])

\* line 87-88
head_eof ==
    /\ At("parse_head", "loop")
    /\ ~is_closing_tag(current, HEAD)
    /\ current.type = EOF
    /\ Raise(ParseError("Unexpected EOF in head tag", current))

\* line 91-92
head_return ==
    /\ At("parse_head", "loop")
    /\ is_closing_tag(current, HEAD)
    /\ IF expect_tag_ok(current, HEAD, TRUE)
       THEN /\ Parser_advance
            /\ NoRaise
            /\ Return(strip(join(top.head_text)))
       ELSE Raise(ParseError(expect_tag_message(HEAD, TRUE), current))

----------------------------------------------------------------------------
(* Parser._parse_block                                                     *)

\* line 96-97
block_enter ==
    /\ At("parse_block", "enter")
    /\ IF expect_tag_ok(current, BLOCK, FALSE)
       THEN /\ Parser_advance
            /\ NoRaise
            /\ Goto([top EXCEPT !.pc = "skip"])
       ELSE Raise(ParseError(expect_tag_message(BLOCK, FALSE), current))

\* line 100-101
block_skip_newline ==
    /\ At("parse_block", "skip")
    /\ current.type = NEWLINE
    /\ Parser_advance
    /\ NoRaise
    /\ UNCHANGED <<stack, ret, outcome, result>>

\* line 104-107: a head first, or the content at once
block_first_child ==
    /\ At("parse_block", "skip")
    /\ current.type # NEWLINE
    /\ Stay
    /\ NoRaise
    /\ IF is_opening_tag(current, HEAD)
       THEN Call([top EXCEPT !.pc = "head_ret"], HeadFrame)
       ELSE Call([top EXCEPT !.pc = "body_ret"], ContentFrame(BLOCK))

\* block.head = self._parse_head(), then the call of _parse_content
block_after_head ==
    /\ At("parse_block", "head_ret")
    /\ Stay
    /\ NoRaise
    /\ Call([top EXCEPT !.pc = "body_ret", !.block.head = ret], ContentFrame(BLOCK))

\* line 107-109, when the closing tag is there
block_return ==
    /\ At("parse_block", "body_ret")
    /\ expect_tag_ok(current, BLOCK, TRUE)
    /\ Parser_advance
    /\ NoRaise
    /\ Return([top.block EXCEPT !.body = ret])

\* line 108, when it is not
block_close_error ==
    /\ At("parse_block", "body_ret")
    /\ ~expect_tag_ok(current, BLOCK, TRUE)
    /\ Raise(ParseError(expect_tag_message(BLOCK, TRUE), current))

----------------------------------------------------------------------------
(* Parser._parse_dict                                                      *)

\* line 113-122
dict_enter ==
    /\ At("parse_dict", "enter")
    /\ IF expect_tag_ok(current, DICT, FALSE)
       THEN /\ Parser_advance
            /\ NoRaise
            /\ Goto([top EXCEPT !.pc = "loop",
                                !.separator = attr_get(current.attributes, SEP, <<":">>)])
       ELSE Raise(ParseError(expect_tag_message(DICT, FALSE), current))

\* line 124-133, an iteration that does not raise
dict_step ==
    /\ At("parse_dict", "loop")
    /\ ~is_closing_tag(current, DICT)
    /\ current.type # EOF
    /\ Parser_advance
    /\ NoRaise
    /\ Goto(IF current.type = TEXT
            THEN [top EXCEPT !.current_line = Append(@, current.value)]
            ELSE IF current.type = NEWLINE /\ top.current_line # << >>
            THEN [top EXCEPT !.lines = Append(@, strip(join(top.current_line))),
                             !.current_line = << >>]
            ELSE top)

\* line 131-132
dict_eof ==
    /\ At("parse_dict", "loop")
    /\ ~is_closing_tag(current, DICT)
    /\ current.type = EOF
    /\ Raise(ParseError("Unexpected EOF in dict tag", current))

\* line 135-147: the lines become the items, the closing tag is consumed
dict_finish ==
    /\ At("parse_dict", "loop")
    /\ is_closing_tag(current, DICT)
    /\ LET lines == IF top.current_line # << >>
                    THEN Append(top.lines, strip(join(top.current_line)))
                    ELSE top.lines
           filled == dict_fill(lines, top.separator, << >>)
       IN IF filled.raised
          THEN Raise(EmptySeparatorError)
          ELSE IF expect_tag_ok(current, DICT, TRUE)
          THEN /\ Parser_advance
               /\ NoRaise
               /\ Return(Dictionary(filled.items))
          ELSE Raise(ParseError(expect_tag_message(DICT, TRUE), current))

----------------------------------------------------------------------------
(* Parser._parse_list and Parser._process_list_lines                       *)

\* line 151-159
list_enter ==
    /\ At("parse_list", "enter")
    /\ IF expect_tag_ok(current, LIST, FALSE)
       THEN /\ Parser_advance
            /\ NoRaise
            /\ Goto([top EXCEPT !.pc = "loop",
                                !.list_kind = attr_get(current.attributes, KIND, <<".">>)])
       ELSE Raise(ParseError(expect_tag_message(LIST, FALSE), current))

\* line 160-171, an iteration that does not raise
list_step ==
    /\ At("parse_list", "loop")
    /\ ~is_closing_tag(current, LIST)
    /\ current.type # EOF
    /\ Parser_advance
    /\ NoRaise
    /\ Goto([top EXCEPT !.content_parts =
                Append(@, IF current.type = NEWLINE THEN <<NL>> ELSE current.value)])

\* line 161-162
list_eof ==
    /\ At("parse_list", "loop")
    /\ ~is_closing_tag(current, LIST)
    /\ current.type = EOF
    /\ Raise(ParseError("Unexpected EOF in list tag", current))

\* line 173-179 and _process_list_lines: the closing tag is consumed, the
\* content is cut into lines, and the routine of the list's kind takes over
\* (return self._process_...(lines): its frame replaces this one)
list_finish ==
    /\ At("parse_list", "loop")
    /\ is_closing_tag(current, LIST)
    /\ LET lines == split(strip(join(top.content_parts)), <<NL>>)
       IN IF ~expect_tag_ok(current, LIST, TRUE)
          THEN Raise(ParseError(expect_tag_message(LIST, TRUE), current))
          ELSE /\ Parser_advance
               /\ NoRaise
               /\ IF top.list_kind = <<".">>
                  THEN Goto(OrderedFrame(lines))
                  ELSE IF top.list_kind = <<"*">>
                  THEN Goto(UnorderedFrame(lines))
                  ELSE Return(ListBlock(<< >>))

----------------------------------------------------------------------------
(* Parser._process_ordered_list                                            *)

\* the stripped line the loop is at
ordered_line(f) == strip(f.lines[f.i + 1])

\* line 198, 256: no line is left
ordered_return ==
    /\ At("process_ordered_list", "loop")
    /\ top.i >= Len(top.lines)
    /\ Stay
    /\ NoRaise
    /\ Return(ListBlock(top.root_items))

\* line 199-202
ordered_blank ==
    /\ At("process_ordered_list", "loop")
    /\ top.i < Len(top.lines)
    /\ ordered_line(top) = << >>
    /\ Stay
    /\ NoRaise
    /\ Goto([top EXCEPT !.i = @ + 1])

\* a numbered line that pops nothing off the ancestor stack
ordered_add_item_NoPop(f, number, text) ==
    LET item == Block(number, text, << >>)
        st == f.ostack
        parent_path == st[Len(st)].path
        parent == item_at(f.root_items, parent_path)
        append_to_last == parent.body # << >> /\ parent.body[Len(parent.body)].kind = "list"
        last == parent.body[Len(parent.body)]
        body1 == IF append_to_last
                 THEN [parent.body EXCEPT ![Len(parent.body)] =
                          ListBlock(Append(last.items, item))]
                 ELSE Append(parent.body, ListBlock(<<item>>))
        path == IF st = << >> THEN <<Len(f.root_items) + 1>>
                ELSE parent_path \o <<Len(body1), Len(body1[Len(body1)].items)>>
        root_items1 == IF st = << >> THEN Append(f.root_items, item)
                       ELSE update_at(f.root_items, parent_path,
                                      [parent EXCEPT !.body = body1])
    IN [f EXCEPT !.root_items = root_items1,
                 !.ostack = Append(st, [number |-> number, path |-> path]),
                 !.i = @ + 1]

\* line 205-226: the frame after a numbered line
ordered_add_item(f, number, text) ==
    LET item == Block(number, text, << >>)
        level == count_dots(number)
        st == pop_to_level(f.ostack, level)
        parent_path == st[Len(st)].path
        parent == item_at(f.root_items, parent_path)
        append_to_last == parent.body # << >> /\ parent.body[Len(parent.body)].kind = "list"
        last == parent.body[Len(parent.body)]
        body1 == IF append_to_last
                 THEN [parent.body EXCEPT ![Len(parent.body)] =
                          ListBlock(Append(last.items, item))]
                 ELSE Append(parent.body, ListBlock(<<item>>))
        path == IF st = << >> THEN <<Len(f.root_items) + 1>>
                ELSE parent_path \o <<Len(body1), Len(body1[Len(body1)].items)>>
        root_items1 == IF st = << >> THEN Append(f.root_items, item)
                       ELSE update_at(f.root_items, parent_path,
                                      [parent EXCEPT !.body = body1])
    IN [f EXCEPT !.root_items = root_items1,
                 !.ostack = Append(st, [number |-> number, path |-> path]),
                 !.i = @ + 1]

ordered_item ==
    /\ At("process_ordered_list", "loop")
    /\ top.i < Len(top.lines)
    /\ ordered_line(top) # << >>
    /\ ordered_match(ordered_line(top)).ok
    /\ Stay
    /\ NoRaise
    /\ LET m == ordered_match(ordered_line(top))
       IN Goto(ordered_add_item(top, m.number, m.text))

\* a line that is not blank and not numbered
OrderedContinuation ==
    /\ At("process_ordered_list", "loop")
    /\ top.i < Len(top.lines)
    /\ ordered_line(top) # << >>
    /\ ~ordered_match(ordered_line(top)).ok

\* line 253-254
ordered_discard ==
    /\ OrderedContinuation
    /\ top.ostack = << >>
    /\ Stay
    /\ NoRaise
    /\ Goto([top EXCEPT !.i = @ + 1])

\* an extension of the body of the outermost open item, stack[0][1]
ordered_extend_Outermost(f, nodes) ==
    LET path == f.ostack[1].path
        item == item_at(f.root_items, path)
    IN [f EXCEPT !.root_items =
           update_at(f.root_items, path, [item EXCEPT !.body = @ \o nodes])]

\* the frame after body.extend(nodes) / body.append(node) on stack[-1][1]
ordered_extend(f, nodes) ==
    LET path == f.ostack[Len(f.ostack)].path
        item == item_at(f.root_items, path)
    IN [f EXCEPT !.root_items =
           update_at(f.root_items, path, [item EXCEPT !.body = @ \o nodes])]

\* line 250-252
ordered_text ==
    /\ OrderedContinuation
    /\ top.ostack # << >>
    /\ ~contains(ordered_line(top), DICT_OPEN_LITERAL)
    /\ Stay
    /\ NoRaise
    /\ Goto([ordered_extend(top, <<TextNode(ordered_line(top))>>) EXCEPT !.i = @ + 1])

\* line 230-242: the lines of the dictionary are collected and a new
\* Tokenizer and a new Parser are made for them; this parser waits in the
\* frame while that one runs parse()
ordered_dict ==
    /\ OrderedContinuation
    /\ top.ostack # << >>
    /\ contains(ordered_line(top), DICT_OPEN_LITERAL)
    /\ NoRaise
    /\ LET c == collect_dict_lines(top.lines, <<ordered_line(top)>>, top.i + 1)
           dict_text == join_lines(c.dict_lines)
       IN /\ Call([top EXCEPT !.pc = "sub_ret", !.j = c.j,
                              !.saved = [tz |-> tz, current |-> current,
                                         yielded |-> yielded, spans |-> spans]],
                  ParseFrame)
          /\ tz' = Tokenizer(dict_text)
          /\ current' = PlaceholderEOF
          /\ yielded' = << >>
          /\ spans' = << >>
          /\ UNCHANGED <<input, tkerr>>

\* this parser is the running one again
Resume(saved) ==
    /\ tz' = saved.tz
    /\ current' = saved.current
    /\ yielded' = saved.yielded
    /\ spans' = saved.spans
    /\ UNCHANGED <<input, tkerr>>

\* a loop that, the embedded parse done, goes on from the line it stood on
ordered_dict_ret_Rescans ==
    /\ At("process_ordered_list", "sub_ret")
    /\ NoRaise
    /\ Resume(top.saved)
    /\ Goto([(IF ret.body # << >> THEN ordered_extend(top, ret.body) ELSE top)
                EXCEPT !.pc = "loop", !.saved = NoSaved])

\* line 242-249: parsed = sub_parser.parse() has returned
ordered_dict_ret ==
    /\ At("process_ordered_list", "sub_ret")
    /\ NoRaise
    /\ Resume(top.saved)
    /\ Goto([(IF ret.body # << >> THEN ordered_extend(top, ret.body) ELSE top)
                EXCEPT !.pc = "loop", !.i = top.j, !.saved = NoSaved])

----------------------------------------------------------------------------
(* Parser._process_unordered_list                                          *)

\* the frame after "if current_item: items.append(current_item)"
unordered_close_item(f) ==
    IF f.current_item # NoResult
    THEN [f EXCEPT !.items = Append(@, f.current_item)]
    ELSE f

unordered_line(f) == strip(f.lines[f.idx + 1])

\* line 263, 283-286: no line is left
unordered_return ==
    /\ At("process_unordered_list", "loop")
    /\ top.idx >= Len(top.lines)
    /\ Stay
    /\ NoRaise
    /\ Return(ListBlock(unordered_close_item(top).items))

\* line 264-265
unordered_blank ==
    /\ At("process_unordered_list", "loop")
    /\ top.idx < Len(top.lines)
    /\ unordered_line(top) = << >>
    /\ Stay
    /\ NoRaise
    /\ Goto([top EXCEPT !.idx = @ + 1])

UnorderedLine ==
    /\ At("process_unordered_list", "loop")
    /\ top.idx < Len(top.lines)
    /\ unordered_line(top) # << >>

\* line 267-271
unordered_bullet ==
    /\ UnorderedLine
    /\ startswith(unordered_line(top), BULLET_MARKER)
    /\ Stay
    /\ NoRaise
    /\ Goto([unordered_close_item(top) EXCEPT
                !.current_item =
                    Block(None, strip(Slice(unordered_line(top), 2, Len(unordered_line(top)))), << >>),
                !.idx = @ + 1])

\* line 272-279: the current item after a sub-item has been added
unordered_add_sub(item, sub_item) ==
    IF item.body # << >> /\ item.body[Len(item.body)].kind = "list"
    THEN [item EXCEPT !.body[Len(item.body)] =
             ListBlock(Append(item.body[Len(item.body)].items, sub_item))]
    ELSE [item EXCEPT !.body = Append(@, ListBlock(<<sub_item>>))]

unordered_sub ==
    /\ UnorderedLine
    /\ ~startswith(unordered_line(top), BULLET_MARKER)
    /\ startswith(unordered_line(top), SUB_MARKER)
    /\ top.current_item # NoResult
    /\ Stay
    /\ NoRaise
    /\ Goto([top EXCEPT
                !.current_item = unordered_add_sub(@,
                    Block(None, strip(Slice(unordered_line(top), 2, Len(unordered_line(top)))), << >>)),
                !.idx = @ + 1])

\* line 280-281
unordered_text ==
    /\ UnorderedLine
    /\ ~startswith(unordered_line(top), BULLET_MARKER)
    /\ ~(startswith(unordered_line(top), SUB_MARKER) /\ top.current_item # NoResult)
    /\ top.current_item # NoResult
    /\ Stay
    /\ NoRaise
    /\ Goto([top EXCEPT
                !.current_item.body = Append(@, TextNode(unordered_line(top))),
                !.idx = @ + 1])

\* no branch of line 267-281 applies: there is no current item
unordered_discard ==
    /\ UnorderedLine
    /\ ~startswith(unordered_line(top), BULLET_MARKER)
    /\ top.current_item = NoResult
    /\ Stay
    /\ NoRaise
    /\ Goto([top EXCEPT !.idx = @ + 1])

----------------------------------------------------------------------------
(* Exception propagation                                                   *)

\* a frame whose routine would catch the exception where it stands
catches_in_subparse(f) ==
    f.fn = "process_ordered_list" /\ f.pc = "sub_ret"

\* whether the routine of frame f catches an exception raised under it: no
\* routine of the parser has a handler (the only try statement, in _advance,
\* encloses next(self.tokens) alone and names StopIteration)
catches(f) == FALSE

\* the exception leaves the innermost frame, or is caught there; when it has
\* left the last frame it has escaped parse(text)
Unwind ==
    /\ outcome = "running"
    /\ exc # NoExc \/ tkerr
    /\ stack # << >>
    /\ IF catches(top)
       THEN /\ exc' = NoExc
            /\ Resume(top.saved)
            /\ Goto([top EXCEPT !.pc = "loop", !.i = top.j, !.saved = NoSaved])
            /\ UNCHANGED raised
       ELSE /\ stack' = SubSeq(stack, 1, Len(stack) - 1)
            /\ outcome' = IF Len(stack) > 1 THEN outcome
                          ELSE IF tkerr THEN "ValueError" ELSE exc.type
            /\ UNCHANGED <<ret, result, exc, raised>>
            /\ Stay

----------------------------------------------------------------------------
(* Input texts: concatenations of a few pieces, and sample documents       *)

RECURSIVE Concats(_, _)
Concats(pieces, n) ==
    IF n = 0 THEN {<< >>}
    ELSE LET shorter == Concats(pieces, n - 1)
         IN shorter \cup {s \o p : s \in shorter, p \in pieces}

OpenTag(name) == <<"<">> \o name \o <<">">>
CloseTag(name) == <<"<", "/">> \o name \o <<">">>
OpenTagAttr(name, key, value) ==
    <<"<">> \o name \o <<" ">> \o key \o <<"=", QUOTE>> \o value \o <<QUOTE, ">">>

\* bound: the longest text, in characters, given to the tokenizer alone
MaxTokLen == 5

TokChars == {<<"<">>, <<"/">>, <<">">>, <<"a">>, <<" ">>, <<NL>>, <<CR>>}

TokSamples ==
    { <<"<", "d", " ", "s", "=", QUOTE, ":", QUOTE, " ", "k", "=", QUOTE, QUOTE, ">">>,
      <<"a", CR, NL, "<", "/", "b", ">", NL, "c">> }

TokTexts == Concats(TokChars, MaxTokLen) \cup TokSamples

\* bound: the most pieces a document of tags is made of
MaxPieces == 3

TagPieces ==
    { OpenTag(BLOCK), CloseTag(BLOCK), OpenTag(HEAD), CloseTag(HEAD),
      OpenTag(DICT), CloseTag(DICT), OpenTagAttr(DICT, SEP, << >>),
      OpenTag(LIST), CloseTag(LIST), <<"a">>, <<NL>> }

\* bound: the longest document of plain text, in characters
MaxTextLen == 6

TextChars == {<<"a">>, <<" ">>, <<NL>>, <<CR>>}

\* an ordered list: a line before the first item, items of three levels,
\* text lines, a blank line, an embedded dictionary, an item after it
SampleOrdered ==
    join_lines(<< OpenTag(LIST),
                  <<"x">>,
                  <<"1", ".", " ", "a">>,
                  <<"b">>,
                  <<"1", ".", "1", ".", " ", "c">>,
                  << >>,
                  <<"1", ".", "2", ".", " ", "d">>,
                  OpenTagAttr(DICT, SEP, <<"-">>),
                  <<"k", " ", "-", " ", "v">>,
                  CloseTag(DICT),
                  <<"2", ".", " ", "e">>,
                  CloseTag(LIST) >>)

\* an ordered list whose embedded dictionary is not closed
SampleOrderedOpenDict ==
    join_lines(<< OpenTag(LIST),
                  <<"1", ".", " ", "a">>,
                  OpenTag(DICT),
                  <<"k", ":", "v">>,
                  CloseTag(LIST) >>)

\* an unordered list written with the marker of line 267
SampleUnordered ==
    join_lines(<< OpenTagAttr(LIST, KIND, <<"*">>),
                  <<"x">>,
                  BULLET_MARKER \o <<"a">>,
                  <<"o", " ", "b">>,
                  <<"o", " ", "c">>,
                  <<"t">>,
                  << >>,
                  BULLET_MARKER \o <<"d">>,
                  CloseTag(LIST) >>)

\* an unordered list written with the bullet glyph
SampleBullets ==
    join_lines(<< OpenTagAttr(LIST, KIND, <<"*">>),
                  <<BULLET, " ", "a">>,
                  <<"o", " ", "b">>,
                  <<BULLET, " ", "c">>,
                  CloseTag(LIST) >>)

\* a list of a kind that is neither "." nor "*"
SampleOtherKind ==
    OpenTagAttr(LIST, KIND, <<"x">>) \o <<"1", ".", " ", "a">> \o CloseTag(LIST)

\* a document with a head, text, a block with a head, a dictionary, a stray tag
SampleDocument ==
    join_lines(<< OpenTag(HEAD) \o <<"t">> \o CloseTag(HEAD),
                  <<"a">>,
                  OpenTag(BLOCK),
                  OpenTag(HEAD) \o <<"u">> \o CloseTag(HEAD),
                  <<"b">> \o OpenTag(<<"x">>) \o <<"c">>,
                  OpenTag(DICT),
                  <<"k", ":", " ", "v", ":", "w">>,
                  <<"k", "2">>,
                  CloseTag(DICT),
                  CloseTag(BLOCK),
                  <<"d">> >>)

\* a block whose head runs over two lines and holds a stray tag
SampleHead ==
    join_lines(<< OpenTag(BLOCK),
                  OpenTag(HEAD) \o <<" ", "h">>,
                  <<"i">> \o OpenTag(<<"x">>) \o <<"j", " ">> \o CloseTag(HEAD),
                  <<"b">>,
                  CloseTag(BLOCK) >>)

\* documents cut short inside a region, one with a head out of place, and
\* one with a closing tag that closes nothing on a line of its own
SampleMalformed ==
    { OpenTag(HEAD) \o <<"a">>,
      OpenTag(LIST) \o <<"a">>,
      OpenTag(BLOCK) \o <<"a">>,
      <<"a">> \o OpenTag(HEAD),
      join_lines(<< <<"a">>, CloseTag(DICT), <<"b">> >>) }

Samples ==
    { SampleOrdered, SampleOrderedOpenDict, SampleUnordered, SampleBullets,
      SampleOtherKind, SampleDocument, SampleHead } \cup SampleMalformed

\* bound: the longest text, in characters, between the tags of a dictionary
MaxDictLen == 5

DictChars == {<<"k">>, <<":">>, <<" ">>, <<NL>>}

\* the default separator, and one of two characters
DictOpenings == {OpenTag(DICT), OpenTagAttr(DICT, SEP, <<":", ":">>)}

DictTexts ==
    { o \o r \o CloseTag(DICT) : o \in DictOpenings, r \in Concats(DictChars, MaxDictLen) }
        \cup Samples

\* bound: the most lines between the tags of a list
MaxLines == 4

\* lines of an ordered list: items of three levels, a text line to be
\* trimmed, the tags of a dictionary
OrderedLineKinds ==
    { <<"1", ".", " ", "a">>,
      <<"1", ".", "1", ".", " ", "b">>,
      <<"1", ".", "1", ".", "1", ".", " ", "c">>,
      <<" ", "t">>,
      OpenTag(DICT),
      CloseTag(DICT) }

\* lines of an unordered list: one with the marker of line 267, one with the
\* bullet glyph, a sub-item line, a text line
UnorderedLineKinds ==
    { BULLET_MARKER \o <<"a">>,
      <<BULLET, " ", "b">>,
      <<"o", " ", "c">>,
      <<"t">> }

\* a list of the lines of some kinds, one per line of the text
ListDocs(opening, kinds) ==
    { opening \o <<NL>> \o body \o CloseTag(LIST) :
          body \in Concats({line \o <<NL>> : line \in kinds}, MaxLines) }

ListTexts ==
    ListDocs(OpenTag(LIST), OrderedLineKinds)
        \cup ListDocs(OpenTagAttr(LIST, KIND, <<"*">>), UnorderedLineKinds)
        \cup Samples

TagTexts == Concats(TagPieces, MaxPieces) \cup Samples

PlainTexts == Concats(TextChars, MaxTextLen) \cup Samples

----------------------------------------------------------------------------
(* parse(text): Tokenizer(text), Parser(tokenizer.tokenize()), parse()     *)

InitParse(texts) ==
    /\ input \in texts
    /\ tz = Tokenizer(input)
    /\ yielded = << >>
    /\ spans = << >>
    /\ tkerr = FALSE
    /\ current = PlaceholderEOF
    /\ stack = <<ParseFrame>>
    /\ ret = NoResult
    /\ exc = NoExc
    /\ raised = << >>
    /\ outcome = "running"
    /\ result = NoResult

Init == InitParse(TagTexts)

InitText == InitParse(PlainTexts)

Next ==
    \/ Parser_init
    \/ parse_start
    \/ parse_after_head
    \/ parse_return
    \/ content_exit
    \/ content_head_error
    \/ content_nested
    \/ content_append
    \/ content_text
    \/ content_newline
    \/ content_skip
    \/ head_enter
    \/ head_step
    \/ head_eof
    \/ head_return
    \/ block_enter
    \/ block_skip_newline
    \/ block_first_child
    \/ block_after_head
    \/ block_return
    \/ block_close_error
    \/ dict_enter
    \/ dict_step
    \/ dict_eof
    \/ dict_finish
    \/ list_enter
    \/ list_step
    \/ list_eof
    \/ list_finish
    \/ ordered_return
    \/ ordered_blank
    \/ ordered_item
    \/ ordered_discard
    \/ ordered_text
    \/ ordered_dict
    \/ ordered_dict_ret
    \/ unordered_return
    \/ unordered_blank
    \/ unordered_bullet
    \/ unordered_sub
    \/ unordered_text
    \/ unordered_discard
    \/ Unwind

InitDict == InitParse(DictTexts)

InitList == InitParse(ListTexts)

\* documents made of tags
Spec == Init /\ [][Next]_vars

\* documents of plain text
SpecText == InitText /\ [][Next]_vars

\* documents that are one dictionary
SpecDict == InitDict /\ [][Next]_vars

\* documents that are one list
SpecList == InitList /\ [][Next]_vars

----------------------------------------------------------------------------
(* The tokenizer run on its own: list(Tokenizer(text).tokenize())          *)

InitTok ==
    /\ input \in TokTexts
    /\ tz = Tokenizer(input)
    /\ yielded = << >>
    /\ spans = << >>
    /\ tkerr = FALSE
    /\ current = PlaceholderEOF
    /\ stack = << >>
    /\ ret = NoResult
    /\ exc = NoExc
    /\ raised = << >>
    /\ outcome = "none"
    /\ result = NoResult

\* next(tokens): the generator runs to its next yield, or _read_tag raises
\* ValueError("Invalid tag ...") out of it
YieldToken ==
    /\ tz.gen = "running"
    /\ ~tkerr
    /\ UNCHANGED parservars
    /\ LET r == tokenize(tz)
       IN IF r.raised
          THEN /\ tkerr' = TRUE
               /\ UNCHANGED <<input, tz, yielded, spans>>
          ELSE /\ tz' = r.t
               /\ yielded' = Append(yielded, r.tok)
               /\ spans' = Append(spans, <<tz.pos, r.t.pos>>)
               /\ UNCHANGED <<input, tkerr>>

NextTok == YieldToken

SpecTok == InitTok /\ [][NextTok]_vars

----------------------------------------------------------------------------
(* Claims                                                                  *)

\* the frames of the running parser: those above the innermost frame that
\* waits for an embedded parse to return
RECURSIVE RunningBase(_)
RunningBase(k) ==
    IF k = 0 THEN 0
    ELSE IF stack[k].fn = "process_ordered_list" /\ stack[k].pc = "sub_ret" THEN k
    ELSE RunningBase(k - 1)

RegionFns == {"parse_head", "parse_block", "parse_dict", "parse_list"}

\* the index in stack of the innermost region (head, block, dict, list) the
\* running parser has opened and not closed, 0 if it has none
RECURSIVE RegionIndexFrom(_)
RegionIndexFrom(k) ==
    IF k <= RunningBase(Len(stack)) THEN 0
    ELSE IF stack[k].fn \in RegionFns /\ stack[k].pc # "enter" THEN k
    ELSE RegionIndexFrom(k - 1)

RegionIndex == RegionIndexFrom(Len(stack))

\* what the claim says the message is when the input ends in a region
EofMessage(fn) ==
    CASE fn = "parse_head" -> "Unexpected EOF in head tag"
      [] fn = "parse_dict" -> "Unexpected EOF in dict tag"
      [] fn = "parse_list" -> "Unexpected EOF in list tag"
      [] fn = "parse_block" -> "Expected closing block tag"

\* the running parser's current token is its tokenizer's end-of-input token
AtEndOfInput ==
    /\ outcome = "running"
    /\ exc = NoExc
    /\ ~tkerr
    /\ current.type = EOF
    /\ tz.gen = "finished"

\* C1 (as claimed): parse(text) returns a root Block or fails with a
\* ParseError; no other kind of failure escapes
C1_OnlyParseErrorEscapes ==
    outcome \in {"running", "returned", "ParseError"}

\* C2: once a ParseError has been raised, in whatever routine and in whichever
\* parser (the embedded one included), it stays the exception in flight, no
\* other is raised, no routine resumes, parse returns no tree, and when it has
\* left the last frame the call has failed with it
C2_ParseErrorIsFatal ==
    (raised # << >> /\ raised[1].type = "ParseError") =>
        /\ exc = raised[1]
        /\ Len(raised) = 1
        /\ result = NoResult
        /\ outcome \in {"running", "ParseError"}
        /\ (stack = << >> => outcome = "ParseError")

\* C2 witness: the ParseError raised by the embedded parse of an unclosed
\* dictionary in an ordered-list item has escaped parse(text)
C2_Witness ==
    /\ input = SampleOrderedOpenDict
    /\ outcome = "ParseError"
    /\ exc.message = "Unexpected EOF in dict tag"
    /\ stack = << >>

\* C3: when the end of input is the current token while a region is open,
\* every step either leaves the parser in that region at that token, or
\* raises the ParseError of the region (Unexpected EOF in <name> tag for
\* head, dict, list; Expected closing block tag for block) with the line and
\* column of the end-of-input token, the position just past the last character
C3_EofInOpenRegion ==
    [][ (AtEndOfInput /\ RegionIndex # 0) =>
          \/ /\ AtEndOfInput'
             /\ current' = current
             /\ RegionIndex' = RegionIndex
             /\ stack'[RegionIndex].fn = stack[RegionIndex].fn
          \/ /\ exc' = [type |-> "ParseError",
                        message |-> EofMessage(stack[RegionIndex].fn),
                        line |-> current.line, column |-> current.column]
             /\ current.line = tz.line
             /\ current.column = tz.column
             /\ tz.pos = Len(tz.text)
             /\ outcome' = "running"
             /\ result' = NoResult ]_vars

\* C3 witness: the input ended inside a head inside a block, on a later line,
\* and the ParseError has escaped
C3_Witness ==
    /\ input = OpenTag(BLOCK) \o <<NL>> \o OpenTag(HEAD)
    /\ outcome = "ParseError"
    /\ exc = [type |-> "ParseError", message |-> "Unexpected EOF in head tag",
              line |-> 2, column |-> 7]

\* C4 (as claimed): in the content of a block, a closing tag of another name
\* makes parse fail with Expected closing block tag at that tag
C4_MismatchedClosingTagFails ==
    [][ (/\ InContentIteration
         /\ top.until_tag = BLOCK
         /\ current.type = TAG_CLOSE
         /\ current.tag_name # BLOCK)
        => exc' = ParseError("Expected closing block tag", current) ]_vars

\* the tokens the running parser has taken, current included, end with a
\* head opening tag that is the first token of the document, or that follows
\* a block opening tag with only newline tokens between
HeadIsFirstChild ==
    LET n == Len(yielded)
    IN /\ n >= 1
       /\ yielded[n] = current
       /\ is_opening_tag(current, HEAD)
       /\ \/ n = 1
          \/ \E k \in 1..(n - 1) :
                /\ is_opening_tag(yielded[k], BLOCK)
                /\ \A m \in (k + 1)..(n - 1) : yielded[m].type = NEWLINE

InSpanOf(p, types) ==
    \E i \in 1..Len(yielded) :
        /\ yielded[i].type \in types
        /\ spans[i][1] < p
        /\ p <= spans[i][2]

\* the character at position p is a "<" at which TAG_PATTERN does not match
StrayAngle(p) ==
    tz.text[p] = "<" /\ ~TAG_PATTERN_match(tz.text, p - 1).ok

\* C6: the tokens read so far are consecutive non-empty spans of the text
\* starting at its first character, each TEXT or tag token holding its span
\* verbatim and each NEWLINE token standing for a line break; there are no
\* more tokens than characters plus one; the end-of-input token is yielded
\* exactly when the generator finishes, last, with the whole text covered
C6_TokensCoverInput ==
    /\ Len(spans) = Len(yielded)
    /\ Len(yielded) <= Len(tz.text) + 1
    /\ \A i \in 1..Len(yielded) :
          /\ spans[i][1] = (IF i = 1 THEN 0 ELSE spans[i - 1][2])
          /\ (yielded[i].type = EOF) <=> (tz.gen = "finished" /\ i = Len(yielded))
          /\ yielded[i].type # EOF =>
                (spans[i][1] < spans[i][2] /\ spans[i][2] <= Len(tz.text))
          /\ yielded[i].type \in {TEXT, TAG_OPEN, TAG_CLOSE} =>
                yielded[i].value = Slice(tz.text, spans[i][1], spans[i][2])
          /\ yielded[i].type = NEWLINE =>
                Slice(tz.text, spans[i][1], spans[i][2]) \in {<<NL>>, <<CR>>, <<CR, NL>>}
    /\ tz.gen = "finished" =>
          (yielded # << >> /\ spans[Len(spans)] = <<Len(tz.text), Len(tz.text)>>)
    /\ tz.gen = "running" => tz.pos = (IF spans = << >> THEN 0 ELSE spans[Len(spans)][2])

\* C6 witness: a text of a tag and a line break of two characters has been
\* tokenized to its end in three tokens
C6_Witness ==
    /\ tz.gen = "finished"
    /\ tz.text = <<"<", "a", ">", CR, NL>>
    /\ Len(yielded) = 3

\* C7 (as claimed): the tokenizer never fails, and every "<" that does not
\* begin a well-formed tag is part of a text token
C7_EveryStrayAngleIsText ==
    /\ ~tkerr
    /\ tz.gen = "finished" =>
          \A p \in 1..Len(tz.text) : StrayAngle(p) => InSpanOf(p, {TEXT})

\* C7 (amended): the tokenizer never fails, and every "<" that does not begin
\* a well-formed tag and does not lie inside a well-formed tag is part of a
\* text token
C7_TokenizerNeverFails ==
    /\ ~tkerr
    /\ tz.gen = "finished" =>
          \A p \in 1..Len(tz.text) :
              (StrayAngle(p) /\ ~InSpanOf(p, {TAG_OPEN, TAG_CLOSE}))
                  => InSpanOf(p, {TEXT})

\* C7 witness: a text token that starts at a "<" which begins no tag, before a
\* well-formed tag
C7_Witness ==
    /\ tz.gen = "finished"
    /\ tz.text = <<"<", "/", "<", "a", ">">>
    /\ yielded[1].type = TEXT
    /\ yielded[1].value = <<"<", "/">>
    /\ yielded[2].type = TAG_OPEN

\* the number of "\n" among the first pos characters of the text
RECURSIVE NewlinesBefore(_, _)
NewlinesBefore(text, pos) ==
    IF pos = 0 THEN 0
    ELSE (IF text[pos] = NL THEN 1 ELSE 0) + NewlinesBefore(text, pos - 1)

\* the 1-based index of the last "\n" among the first pos characters, 0 if none
RECURSIVE LastNewlineBefore(_, _)
LastNewlineBefore(text, pos) ==
    IF pos = 0 THEN 0
    ELSE IF text[pos] = NL THEN pos
    ELSE LastNewlineBefore(text, pos - 1)

\* C8 (as claimed): every token carries the 1-based line and column of its
\* first character, and the token after a NEWLINE token is on the next line
\* at column 1
C8_NewlineAdvancesOneLine ==
    \A i \in 1..Len(yielded) :
        /\ yielded[i].line = 1 + NewlinesBefore(tz.text, spans[i][1])
        /\ yielded[i].column = spans[i][1] - LastNewlineBefore(tz.text, spans[i][1]) + 1
        /\ (yielded[i].type = NEWLINE /\ i < Len(yielded)) =>
              (/\ yielded[i + 1].line = yielded[i].line + 1
               /\ yielded[i + 1].column = 1)

\* C9: when parse of a text made only of whitespace and newlines (the empty
\* text included) is over, it has returned a root Block with no number, no
\* head and an empty body
C9_BlankDocumentIsEmptyRoot ==
    ((\A p \in 1..Len(input) : input[p] \in SpaceChars) /\ outcome # "running") =>
        (outcome = "returned" /\ result = Block(None, None, << >>))

\* C9 witness: a text of blanks and both kinds of line break has been parsed
C9_Witness ==
    /\ input = <<" ", NL, CR, NL, " ", CR>>
    /\ outcome = "returned"

\* the pieces of s between its runs of two or more consecutive "\n"
RECURSIVE CutAtBlankLines(_)
CutAtBlankLines(s) ==
    LET k == FindSub(s, <<NL, NL>>, 1)
    IN IF k = 0 THEN <<s>>
       ELSE <<SubSeq(s, 1, k - 1)>>
            \o CutAtBlankLines(SubSeq(s, RunEnd(s, k, {NL}), Len(s)))

\* the text nodes of the non-empty trimmed pieces, in order
RECURSIVE ParagraphNodes(_)
ParagraphNodes(pieces) ==
    IF pieces = << >> THEN << >>
    ELSE LET para == strip(Head(pieces))
         IN (IF para # << >> THEN <<TextNode(para)>> ELSE << >>)
            \o ParagraphNodes(Tail(pieces))

\* the values of the text nodes in the bodies of a tree
RECURSIVE TextsIn(_)
TextsIn(node) ==
    CASE node.kind = "text" -> {node.value}
      [] node.kind = "block" -> UNION {TextsIn(node.body[i]) : i \in 1..Len(node.body)}
      [] node.kind = "list" -> UNION {TextsIn(node.items[i]) : i \in 1..Len(node.items)}
      [] OTHER -> {}

\* non-empty, no whitespace at either end, no two consecutive newlines
WellFormedText(v) ==
    /\ v # << >>
    /\ v[1] \notin SpaceChars
    /\ v[Len(v)] \notin SpaceChars
    /\ ~contains(v, <<NL, NL>>)

\* C10: whatever run of text and newline tokens a content loop has buffered,
\* flushing it yields exactly the non-empty trimmed pieces of its trimmed
\* concatenation cut at every run of two or more newlines, in order; and every
\* text node of a body, in the content lists being built and in the tree
\* returned, is non-empty, trimmed and without two consecutive newlines
C10_FlushYieldsParagraphs ==
    /\ \A k \in 1..Len(stack) :
          stack[k].fn = "parse_content" =>
              /\ flush_text(stack[k].current_text, << >>)
                    = ParagraphNodes(CutAtBlankLines(strip(join(stack[k].current_text))))
              /\ \A i \in 1..Len(stack[k].content) :
                    \A v \in TextsIn(stack[k].content[i]) : WellFormedText(v)
    /\ result # NoResult => \A v \in TextsIn(result) : WellFormedText(v)

\* C10 witness: a text with a leading blank and a run of three newlines
\* between two paragraphs has been parsed into two trimmed text nodes
C10_Witness ==
    /\ input = <<" ", "a", NL, NL, NL, "a">>
    /\ outcome = "returned"
    /\ result.body = <<TextNode(<<"a">>), TextNode(<<"a">>)>>

\* the concatenation of the values of the TEXT tokens among toks[a..b]
RECURSIVE TextValues(_, _, _)
TextValues(toks, a, b) ==
    IF a > b THEN << >>
    ELSE (IF toks[a].type = TEXT THEN toks[a].value ELSE << >>)
         \o TextValues(toks, a + 1, b)

\* token s of the running tokenizer is a head opening tag in first-child
\* position: the first token of all, or after a block opening tag and newlines
HeadOpensAt(s) ==
    /\ is_opening_tag(yielded[s], HEAD)
    /\ \/ s = 1
       \/ \E b \in 1..(s - 1) :
             /\ is_opening_tag(yielded[b], BLOCK)
             /\ \A m \in (b + 1)..(s - 1) : yielded[m].type = NEWLINE

\* C11: when the head routine returns at a closing head tag, what it returns
\* is the trimmed concatenation of the values of the text tokens between the
\* opening head tag and that tag, the first closing head tag after it, with
\* nothing put in for newline or other tokens; the caller stores that string
\* as the head of the root or block and starts the body with an empty content
\* list at the token after the closing head tag, so that no token of the head
\* reaches the body
C11_HeadIsTrimmedText ==
    [][ /\ (At("parse_head", "loop") /\ is_closing_tag(current, HEAD)) =>
              /\ \E s \in 1..(Len(yielded) - 1) :
                    /\ HeadOpensAt(s)
                    /\ \A m \in (s + 1)..(Len(yielded) - 1) :
                          ~is_closing_tag(yielded[m], HEAD)
                    /\ ret' = strip(TextValues(yielded, s + 1, Len(yielded) - 1))
              /\ yielded[Len(yielded)] = current
              /\ stack' = SubSeq(stack, 1, Len(stack) - 1)
        /\ (At("parse", "head_ret") \/ At("parse_block", "head_ret")) =>
              /\ is_closing_tag(yielded[Len(yielded) - 1], HEAD)
              /\ current = yielded[Len(yielded)]
              /\ current' = current
              /\ yielded' = yielded
              /\ Len(stack') = Len(stack) + 1
              /\ (IF top.fn = "parse" THEN stack'[Len(stack)].root.head
                  ELSE stack'[Len(stack)].block.head) = ret
              /\ stack'[Len(stack')].fn = "parse_content"
              /\ stack'[Len(stack')].content = << >>
              /\ stack'[Len(stack')].current_text = << >>
      ]_vars

\* C11 witness: the block of the sample whose head spans two lines has been
\* returned with the head "hij" and the body "b"
C11_Witness ==
    /\ input = SampleHead
    /\ outcome = "returned"
    /\ result.body = <<Block(None, <<"h", "i", "j">>, <<TextNode(<<"b">>)>>)>>

\* the text nodes a buffer of token values flushes to, as C10 states them
ParagraphsOf(buffer) ==
    ParagraphNodes(CutAtBlankLines(strip(join(buffer))))

\* s is a prefix of t
IsPrefix(s, t) ==
    Len(s) <= Len(t) /\ SubSeq(t, 1, Len(s)) = s

\* the routine that parses the structure a tag name opens
NestedRoutine(tag_name) ==
    CASE tag_name = BLOCK -> "parse_block"
      [] tag_name = DICT -> "parse_dict"
      [] tag_name = LIST -> "parse_list"
      [] OTHER -> "none"

\* C12: a content list only ever grows at its end; when the loop meets a
\* block, dict or list opening tag, the paragraphs of the text pending before
\* it are appended to the content list and the buffer is emptied before the
\* nested routine starts at that tag; what the routine returns is appended
\* next, with the buffer still empty; and text that follows is buffered anew
\* and reaches the list only behind the structure, at the next flush
C12_BodyInDocumentOrder ==
    [][ /\ \A k \in 1..Len(stack) :
              (k <= Len(stack') /\ stack[k].fn = "parse_content"
                                /\ stack'[k].fn = "parse_content") =>
                  IsPrefix(stack[k].content, stack'[k].content)
        /\ (InContentIteration /\ current.type = TAG_OPEN
                               /\ current.tag_name \in {BLOCK, DICT, LIST}) =>
              /\ Len(stack') = Len(stack) + 1
              /\ stack'[Len(stack)].content = top.content \o ParagraphsOf(top.current_text)
              /\ stack'[Len(stack)].current_text = << >>
              /\ stack'[Len(stack')].fn = NestedRoutine(current.tag_name)
              /\ current' = current
        /\ At("parse_content", "append_ret") =>
              /\ top.current_text = << >>
              /\ Len(stack') = Len(stack)
              /\ stack'[Len(stack)].content = Append(top.content, ret)
              /\ stack'[Len(stack)].current_text = << >>
              /\ current' = current
        /\ (At("parse_content", "loop") /\ ~InContentIteration) =>
              /\ ret' = top.content \o ParagraphsOf(top.current_text)
              /\ stack' = SubSeq(stack, 1, Len(stack) - 1)
      ]_vars

\* C12 witness: the sample document has been returned with the text before
\* its block, the block, and the text after it, in this order; and in the
\* block the text before the dictionary, then the dictionary
C12_Witness ==
    /\ input = SampleDocument
    /\ outcome = "returned"
    /\ Len(result.body) = 3
    /\ result.body[1] = TextNode(<<"a">>)
    /\ result.body[2].kind = "block"
    /\ Len(result.body[2].body) = 2
    /\ result.body[2].body[1] = TextNode(<<"b", "c">>)
    /\ result.body[2].body[2].kind = "dict"
    /\ result.body[3] = TextNode(<<"d">>)

\* the non-empty trimmed ones of a sequence of lines, in order
RECURSIVE TrimmedLines(_)
TrimmedLines(lines) ==
    IF lines = << >> THEN << >>
    ELSE (IF strip(Head(lines)) # << >> THEN <<strip(Head(lines))>> ELSE << >>)
         \o TrimmedLines(Tail(lines))

\* the key and the value a trimmed line writes under a separator
LineKey(line, sep) ==
    IF contains(line, sep)
    THEN strip(SubSeq(line, 1, FindSub(line, sep, 1) - 1))
    ELSE line

LineValue(line, sep) ==
    IF contains(line, sep)
    THEN strip(SubSeq(line, FindSub(line, sep, 1) + Len(sep), Len(line)))
    ELSE << >>

\* the value of the last line that writes a key
LastValue(lines, sep, key) ==
    LET writers == {i \in 1..Len(lines) : LineKey(lines[i], sep) = key}
        last == CHOOSE i \in writers : \A j \in writers : j <= i
    IN LineValue(lines[last], sep)

\* the text between an opening tag the input starts with and the closing dict
\* tag it ends with
RegionAfter(opening) ==
    SubSeq(input, Len(opening) + 1, Len(input) - Len(CloseTag(DICT)))

IsDotted(s) ==
    /\ s # << >>
    /\ s[1] \in Digits
    /\ s[Len(s)] \in Digits
    /\ \A i \in 1..Len(s) : s[i] \in Digits \cup {"."}
    /\ \A i \in 1..(Len(s) - 1) : ~(s[i] = "." /\ s[i + 1] = ".")

\* the positions of a dot that ends a dotted prefix of a trimmed line and is
\* followed by whitespace: there is at most one
PrefixDots(line) ==
    {e \in 2..(Len(line) - 1) :
        /\ IsDotted(SubSeq(line, 1, e - 1))
        /\ line[e] = "."
        /\ line[e + 1] \in SpaceChars}

IsNumbered(line) == PrefixDots(line) # {}

NumberOfLine(line) ==
    SubSeq(line, 1, (CHOOSE e \in PrefixDots(line) : TRUE) - 1)

TrailingText(line) ==
    lstrip(SubSeq(line, (CHOOSE e \in PrefixDots(line) : TRUE) + 1, Len(line)))

Dots(number) == Cardinality({i \in 1..Len(number) : number[i] = "."})

\* the last line a dictionary that starts at line k takes: the first line
\* from k on that contains the closing literal, the last line if none does
LastCollected(lines, k) ==
    LET closers == {e \in k..Len(lines) : contains(lines[e], DICT_CLOSE_LITERAL)}
    IN IF closers = {} THEN Len(lines)
       ELSE CHOOSE e \in closers : \A d \in closers : e <= d

\* what each line of an ordered list is, from line k on, open telling whether
\* a numbered line came before: "blank", "item" (numbered), "discarded" (no
\* item is open), "dict" (starts a dictionary), "collected" (taken by a
\* dictionary), "text"
RECURSIVE LineRoles(_, _, _)
LineRoles(lines, k, open) ==
    IF k > Len(lines) THEN << >>
    ELSE LET line == strip(lines[k])
         IN IF line = << >> THEN <<"blank">> \o LineRoles(lines, k + 1, open)
            ELSE IF IsNumbered(line) THEN <<"item">> \o LineRoles(lines, k + 1, TRUE)
            ELSE IF ~open THEN <<"discarded">> \o LineRoles(lines, k + 1, FALSE)
            ELSE IF contains(line, DICT_OPEN_LITERAL)
            THEN LET e == LastCollected(lines, k)
                 IN <<"dict">> \o [n \in 1..(e - k) |-> "collected"]
                    \o LineRoles(lines, e + 1, TRUE)
            ELSE <<"text">> \o LineRoles(lines, k + 1, TRUE)

\* the number and trailing text of the numbered lines among the first n
RECURSIVE NumberedLines(_, _, _)
NumberedLines(lines, roles, n) ==
    IF n = 0 THEN << >>
    ELSE NumberedLines(lines, roles, n - 1)
         \o (IF roles[n] = "item"
             THEN <<[number |-> NumberOfLine(strip(lines[n])),
                     head |-> TrailingText(strip(lines[n]))]>>
             ELSE << >>)

\* the nearest preceding numbered line with strictly fewer dots, 0 if none
ParentLine(numbered, k) ==
    LET above == {j \in 1..(k - 1) : Dots(numbered[j].number) < Dots(numbered[k].number)}
    IN IF above = {} THEN 0 ELSE CHOOSE j \in above : \A a \in above : a <= j

\* the items whose parent is p, from line k on, in line order, each with the
\* items under it
RECURSIVE ItemsUnder(_, _, _)
ItemsUnder(numbered, p, k) ==
    IF k > Len(numbered) THEN << >>
    ELSE (IF ParentLine(numbered, k) = p
          THEN <<[number |-> numbered[k].number, head |-> numbered[k].head,
                  kids |-> ItemsUnder(numbered, k, k + 1)]>>
          ELSE << >>)
         \o ItemsUnder(numbered, p, k + 1)

\* the items of the ListBlocks of a body, in order
RECURSIVE KidsOf(_)
KidsOf(body) ==
    IF body = << >> THEN << >>
    ELSE (IF Head(body).kind = "list" THEN Head(body).items ELSE << >>)
         \o KidsOf(Tail(body))

\* the items of a list as number, head and items under them
RECURSIVE ItemForest(_)
ItemForest(items) ==
    [i \in 1..Len(items) |->
        [number |-> items[i].number, head |-> items[i].head,
         kids |-> ItemForest(KidsOf(items[i].body))]]

\* the items the first n lines of an ordered list stand for
ExpectedItems(lines, n) ==
    ItemsUnder(NumberedLines(lines, LineRoles(lines, 1, FALSE), n), 0, 1)

\* the text between a list opening tag the input starts with and the closing
\* list tag it ends with
ListRegion(opening) ==
    SubSeq(input, Len(opening) + 1, Len(input) - Len(CloseTag(LIST)))

\* the input is one list region under the opening tag, and parse returned
ReturnedList(opening) ==
    /\ outcome = "returned"
    /\ startswith(input, opening)
    /\ Len(input) >= Len(opening) + Len(CloseTag(LIST))
    /\ SubSeq(input, Len(input) - Len(CloseTag(LIST)) + 1, Len(input)) = CloseTag(LIST)
    /\ ~contains(ListRegion(opening), <<"<", "/", "l">>)

\* C14: at every point of the loop over the lines of an ordered list, the
\* items built so far are those of the numbered lines read so far (lines
\* taken by a dictionary apart): one item per line, its number the dotted
\* prefix and its head the trailing text, placed under the nearest preceding
\* numbered line with strictly fewer dots, or at top level if there is none,
\* in line order; and the list returned for a document that is one ordered
\* list holds the items of all its lines
C14_OrderedItemsNestByDots ==
    /\ \A k \in 1..Len(stack) :
          stack[k].fn = "process_ordered_list" =>
              ItemForest(stack[k].root_items) = ExpectedItems(stack[k].lines, stack[k].i)
    /\ ReturnedList(OpenTag(LIST)) =>
          LET lines == split(strip(ListRegion(OpenTag(LIST))), <<NL>>)
          IN /\ Len(result.body) = 1
             /\ result.body[1].kind = "list"
             /\ ItemForest(result.body[1].items) = ExpectedItems(lines, Len(lines))

\* C14 witness: the lines 1.1. / 1.1.1. / 1. / 1.1.1. have been returned as
\* two top-level items, each with the following line as its only child
C14_Witness ==
    /\ input = OpenTag(LIST) \o <<NL>>
               \o <<"1", ".", "1", ".", " ", "b", NL>>
               \o <<"1", ".", "1", ".", "1", ".", " ", "c", NL>>
               \o <<"1", ".", " ", "a", NL>>
               \o <<"1", ".", "1", ".", "1", ".", " ", "c", NL>>
               \o CloseTag(LIST)
    /\ outcome = "returned"
    /\ LET its == result.body[1].items
       IN /\ Len(its) = 2
          /\ its[1].number = <<"1", ".", "1">>
          /\ its[2].number = <<"1">>
          /\ its[2].body = <<ListBlock(<<Block(<<"1", ".", "1", ".", "1">>, <<"c">>, << >>)>>)>>

\* a ListBlock of a body is its last element (so there is at most one)
ListIsLast(body) ==
    \A i \in 1..Len(body) : body[i].kind = "list" => i = Len(body)

\* in the subtree of a node, every item of every ListBlock has its nested
\* ListBlock, if any, as the last element of its body
RECURSIVE ItemsEndWithList(_)
ItemsEndWithList(node) ==
    CASE node.kind = "list" ->
            \A i \in 1..Len(node.items) :
                /\ ListIsLast(node.items[i].body)
                /\ \A j \in 1..Len(node.items[i].body) :
                      ItemsEndWithList(node.items[i].body[j])
      [] node.kind = "block" ->
            \A j \in 1..Len(node.body) : ItemsEndWithList(node.body[j])
      [] OTHER -> TRUE

\* C15 (as claimed): in the tree parse returns, the body of every item of
\* every ListBlock holds at most one ListBlock, and holds it last
C15_NestedListIsLast ==
    outcome = "returned" => ItemsEndWithList(result)

\* the items of a list, each followed by the items under it: for an ordered
\* list this is the order of their lines
RECURSIVE ItemsInOrder(_)
ItemsInOrder(items) ==
    IF items = << >> THEN << >>
    ELSE <<Head(items)>> \o ItemsInOrder(KidsOf(Head(items).body))
         \o ItemsInOrder(Tail(items))

\* the elements of a body that are not ListBlocks
OwnNodes(body) == SelectSeq(body, LAMBDA n : n.kind # "list")

\* the items of a list in order, as number, head and own nodes
OwnBodies(items) ==
    LET its == ItemsInOrder(items)
    IN [m \in 1..Len(its) |->
           [number |-> its[m].number, head |-> its[m].head,
            own |-> OwnNodes(its[m].body)]]

\* the lines of a list region, as a set
KidLines(region) ==
    LET lines == split(strip(region), <<NL>>)
    IN {lines[i] : i \in 1..Len(lines)}

\* the loop over the lines of an ordered list is at a line of the role
OrderedLoopAt(role) ==
    /\ At("process_ordered_list", "loop")
    /\ top.i < Len(top.lines)
    /\ LineRoles(top.lines, 1, FALSE)[top.i + 1] = role

C17_OrderedDictLines ==
    [][ /\ OrderedLoopAt("dict") =>
              LET k == top.i + 1
                  e == LastCollected(top.lines, k)
                  f1 == stack'[Len(stack)]
              IN /\ top.ostack # << >>
                 /\ contains(strip(top.lines[k]), DICT_OPEN_LITERAL)
                 /\ Len(stack') = Len(stack) + 1
                 /\ stack'[Len(stack')] = ParseFrame
                 /\ tz' = Tokenizer(join_lines(<<strip(top.lines[k])>>
                                               \o SubSeq(top.lines, k + 1, e)))
                 /\ current' = PlaceholderEOF
                 /\ yielded' = << >>
                 /\ f1.root_items = top.root_items
                 /\ f1.i = top.i
        /\ At("process_ordered_list", "sub_ret") =>
              LET k == top.i + 1
                  e == LastCollected(top.lines, k)
                  f1 == stack'[Len(stack)]
                  numbered == NumberedLines(top.lines, LineRoles(top.lines, 1, FALSE), top.i)
                  its == ItemsInOrder(top.root_items)
                  its1 == ItemsInOrder(f1.root_items)
                  before == OwnBodies(top.root_items)
              IN /\ LineRoles(top.lines, 1, FALSE)[k] = "dict"
                 /\ Len(stack') = Len(stack)
                 /\ f1.pc = "loop"
                 /\ f1.i = e
                 /\ its[Len(its)].number = numbered[Len(numbered)].number
                 /\ Len(its1) = Len(its)
                 /\ its1[Len(its)].body = its[Len(its)].body \o ret.body
                 /\ OwnBodies(f1.root_items)
                       = [before EXCEPT ![Len(before)].own = @ \o OwnNodes(ret.body)]
                 /\ ItemForest(f1.root_items) = ItemForest(top.root_items)
                 /\ tz' = top.saved.tz
                 /\ current' = top.saved.current
      ]_vars

\* C17 witness: in the sample list the dictionary under item 1.2 is the body
\* of that item and the numbered line after "</dict>" is the second top-level
\* item
C17_Witness ==
    /\ input = SampleOrdered
    /\ outcome = "returned"
    /\ LET its == result.body[1].items
       IN /\ Len(its) = 2
          /\ its[2] = Block(<<"2">>, <<"e">>, << >>)
          /\ its[1].body[2].items[2]
                = Block(<<"1", ".", "2">>, <<"d">>,
                        <<Dictionary(<< <<<<"k">>, <<"v">>>> >>)>>)

\* the bullet glyph followed by a space
GLYPH_MARKER == <<BULLET, " ">>

\* the heads of the lines that begin with the bullet glyph and a space: the
\* rest of each such line, trimmed, in line order
RECURSIVE BulletHeads(_)
BulletHeads(lines) ==
    IF lines = << >> THEN << >>
    ELSE LET line == strip(Head(lines))
         IN (IF startswith(line, GLYPH_MARKER)
             THEN <<strip(SubSeq(line, Len(GLYPH_MARKER) + 1, Len(line)))>>
             ELSE << >>)
            \o BulletHeads(Tail(lines))

\* C18 (as claimed): the list returned for a document that is one list of kind
\* "*" has one top-level item per line that begins with the bullet glyph and
\* a space, in line order, with the rest of the line, trimmed, as its head
C18_OneItemPerBulletLine ==
    ReturnedList(OpenTagAttr(LIST, KIND, <<"*">>)) =>
        LET lines == split(strip(ListRegion(OpenTagAttr(LIST, KIND, <<"*">>))), <<NL>>)
            items == result.body[1].items
        IN /\ Len(result.body) = 1
           /\ result.body[1].kind = "list"
           /\ [i \in 1..Len(items) |-> items[i].head] = BulletHeads(lines)

\* an item after a sub-item has been put under it: into its last body
\* element when that is a ListBlock, else into a new ListBlock at the end
WithSubItem(item, sub) ==
    IF item.body # << >> /\ item.body[Len(item.body)].kind = "list"
    THEN [item EXCEPT !.body[Len(item.body)].items = Append(@, sub)]
    ELSE [item EXCEPT !.body = Append(@, ListBlock(<<sub>>))]

\* the top-level items the lines of a list of kind "*" stand for, given the
\* items closed so far and the open one (open = << >> when none is): a line
\* of the bullet glyph opens an item, an "o " line puts a sub-item under the
\* open item, any other non-blank line is text of the open item, and a line
\* that finds no item open is discarded
RECURSIVE BulletItems(_, _, _)
BulletItems(lines, closed, open) ==
    IF lines = << >> THEN closed \o open
    ELSE LET line == strip(Head(lines))
             rest == strip(SubSeq(line, 3, Len(line)))
         IN IF line = << >> THEN BulletItems(Tail(lines), closed, open)
            ELSE IF startswith(line, GLYPH_MARKER)
            THEN BulletItems(Tail(lines), closed \o open, <<Block(None, rest, << >>)>>)
            ELSE IF open = << >> THEN BulletItems(Tail(lines), closed, open)
            ELSE IF startswith(line, <<"o", " ">>)
            THEN BulletItems(Tail(lines), closed,
                             <<WithSubItem(open[1], Block(None, rest, << >>))>>)
            ELSE BulletItems(Tail(lines), closed,
                             <<[open[1] EXCEPT !.body = Append(@, TextNode(line))]>>)

\* the bodies of the items that have one, in order
FilledBodies(items) ==
    LET filled == SelectSeq(items, LAMBDA it : it.body # << >>)
    IN [i \in 1..Len(filled) |-> filled[i].body]

\* C19 (as claimed): in the list returned for a document that is one list of
\* kind "*", the sub-items and texts of the top-level items, item by item,
\* are those their lines give: a sub-item, with an empty body, for each "o "
\* line under the item open at that line, in the item's last ListBlock or a
\* new one, a text node for any other non-blank line, and nothing for the
\* lines before the first bullet line
C19_SubItemsUnderOpenItem ==
    ReturnedList(OpenTagAttr(LIST, KIND, <<"*">>)) =>
        LET lines == split(strip(ListRegion(OpenTagAttr(LIST, KIND, <<"*">>))), <<NL>>)
            items == result.body[1].items
            expected == BulletItems(lines, << >>, << >>)
        IN /\ Len(result.body) = 1
           /\ result.body[1].kind = "list"
           /\ FilledBodies(items) = FilledBodies(expected)

\* in the subtree of a node, no Block that is an element of a body (a block
\* parsed from a block tag) has a number
RECURSIVE BodyBlocksUnnumbered(_)
BodyBlocksUnnumbered(node) ==
    CASE node.kind = "block" ->
            \A j \in 1..Len(node.body) :
                /\ node.body[j].kind = "block" => node.body[j].number = None
                /\ BodyBlocksUnnumbered(node.body[j])
      [] node.kind = "list" ->
            \A i \in 1..Len(node.items) : BodyBlocksUnnumbered(node.items[i])
      [] OTHER -> TRUE

\* every item and sub-item of a list has a dotted number / has none
AllNumbered(items) ==
    LET its == ItemsInOrder(items)
    IN \A m \in 1..Len(its) : its[m].number # None /\ IsDotted(its[m].number)

NoneNumbered(items) ==
    LET its == ItemsInOrder(items)
    IN \A m \in 1..Len(its) : its[m].number = None

\* C20: the items an ordered list builds, at every level, have a number, a
\* dotted one, and so have all the items of a returned ordered list; the
\* items and sub-items an unordered list builds have none, nor have those of
\* a returned unordered list; the root and the block being parsed from a
\* block tag have none, and in the tree returned the root and every Block
\* that is an element of a body have none
C20_NumberOnlyOnOrderedItems ==
    /\ \A k \in 1..Len(stack) :
          /\ stack[k].fn = "process_ordered_list" => AllNumbered(stack[k].root_items)
          /\ stack[k].fn = "process_unordered_list" =>
                /\ NoneNumbered(stack[k].items)
                /\ stack[k].current_item # NoResult =>
                      NoneNumbered(<<stack[k].current_item>>)
          /\ stack[k].fn = "parse_block" => stack[k].block.number = None
          /\ stack[k].fn = "parse" => stack[k].root.number = None
    /\ result # NoResult =>
          /\ result.number = None
          /\ BodyBlocksUnnumbered(result)
    /\ ReturnedList(OpenTag(LIST)) => AllNumbered(result.body[1].items)
    /\ ReturnedList(OpenTagAttr(LIST, KIND, <<"*">>)) => NoneNumbered(result.body[1].items)

\* C20 witness: the sample ordered list has been returned in a root without
\* number, its four items numbered 1, 1.1, 1.2 and 2
C20_Witness ==
    /\ input = SampleOrdered
    /\ outcome = "returned"
    /\ result.number = None
    /\ LET its == ItemsInOrder(result.body[1].items)
       IN [m \in 1..Len(its) |-> its[m].number]
             = << <<"1">>, <<"1", ".", "1">>, <<"1", ".", "2">>, <<"2">> >>


----------------------------------------------------------------------------
(* C21: the position a ParseError carries                                  *)

\* the parser whose tokenizer is t and whose current token is cur, having
\* been given the tokens toks, has not advanced past the end of input: once
\* the generator has yielded its EOF token, that token is the current one
HoldsAtEof(t, cur, toks) ==
    t.gen = "finished" =>
        /\ toks # << >>
        /\ cur = toks[Len(toks)]
        /\ cur.type = EOF

\* Parser.__init__ has not made its first _advance yet
BeforeFirstAdvance ==
    stack # << >> /\ top.fn = "parse" /\ top.pc = "init"

\* C21: every ParseError raised carries a line of at least 1 and a column of
\* at least 1; the running parser, and every parser waiting for an embedded
\* one, stays at the tokenizer's EOF token once it is the current token, and
\* after the first advance of a parser the placeholder token of line 0,
\* column 0 is never its current token
C21_ParseErrorHasPosition ==
    /\ \A k \in 1..Len(raised) :
          raised[k].type = "ParseError" =>
              raised[k].line >= 1 /\ raised[k].column >= 1
    /\ HoldsAtEof(tz, current, yielded)
    /\ \A k \in 1..Len(stack) :
          stack[k].fn = "process_ordered_list" /\ stack[k].pc = "sub_ret" =>
              /\ HoldsAtEof(stack[k].saved.tz, stack[k].saved.current,
                            stack[k].saved.yielded)
              /\ stack[k].saved.current # PlaceholderEOF
    /\ ~BeforeFirstAdvance => current # PlaceholderEOF

\* C21 witness: parse(text) has failed with a ParseError detected at the
\* tokenizer's EOF token, which is still the current token, and the error
\* carries that token's line and column
C21_Witness ==
    /\ outcome = "ParseError"
    /\ tz.gen = "finished"
    /\ current.type = EOF
    /\ raised[Len(raised)].line = current.line
    /\ raised[Len(raised)].column = current.column
    /\ current.line >= 1
    /\ current.column > 1


----------------------------------------------------------------------------
(* C22: termination                                                        *)

\* the position at which each routine's loop stands between two iterations
LoopPc(fn) ==
    CASE fn = "parse_block" -> "skip"
      [] fn \in {"parse_content", "parse_head", "parse_dict", "parse_list",
                 "process_ordered_list", "process_unordered_list"} -> "loop"
      [] OTHER -> "none"

\* this step is an iteration of the innermost routine's loop that leaves the
\* routine in its loop: no call, no return, no raise
IterationStays ==
    /\ outcome = "running" /\ exc = NoExc /\ exc' = NoExc
    /\ stack # << >>
    /\ Len(stack') = Len(stack)
    /\ top.pc = LoopPc(top.fn)
    /\ top'.fn = top.fn
    /\ top'.pc = top.pc

\* this step takes the next token from the generator, which has moved on in
\* its text or has ended
TokenConsumed ==
    /\ tz.gen = "running"
    /\ tz'.text = tz.text
    /\ yielded' = Append(yielded, current')
    /\ \/ tz'.pos > tz.pos /\ tz'.pos <= Len(tz.text)
       \/ tz'.gen = "finished" /\ tz'.pos = tz.pos /\ tz.pos = Len(tz.text)

\* this step moves the innermost loop on by a token or by a line
IterationConsumes ==
    CASE top.fn = "process_ordered_list" ->
            top'.i > top.i /\ top'.i <= Len(top.lines) /\ top'.lines = top.lines
      [] top.fn = "process_unordered_list" ->
            top'.idx > top.idx /\ top'.idx <= Len(top.lines) /\ top'.lines = top.lines
      [] OTHER -> TokenConsumed

\* the routine a loop iteration has called starts by consuming its opening tag
CalleeConsumes ==
    \A k \in 1..Len(stack) :
        /\ stack[k].fn = "parse_block" /\ stack[k].pc = "enter" =>
              k = Len(stack) /\ expect_tag_ok(current, BLOCK, FALSE)
        /\ stack[k].fn = "parse_dict" /\ stack[k].pc = "enter" =>
              k = Len(stack) /\ expect_tag_ok(current, DICT, FALSE)
        /\ stack[k].fn = "parse_list" /\ stack[k].pc = "enter" =>
              k = Len(stack) /\ expect_tag_ok(current, LIST, FALSE)

\* frame f is an ordered list waiting for its embedded parser
Waiting(f) == f.fn = "process_ordered_list" /\ f.pc = "sub_ret"

\* the text of the parser running above frame k of the stack
RECURSIVE TextAbove(_)
TextAbove(k) ==
    IF k >= Len(stack) THEN tz.text
    ELSE IF Waiting(stack[k + 1]) THEN stack[k + 1].saved.tz.text
    ELSE TextAbove(k + 1)

\* an ordered list waiting for its embedded parser has collected at least the
\* line it stands on, and the embedded text is shorter than its own
SubParseShorter ==
    \A k \in 1..Len(stack) :
        Waiting(stack[k]) =>
            /\ stack[k].j > stack[k].i
            /\ stack[k].j <= Len(stack[k].lines)
            /\ Len(TextAbove(k)) < Len(stack[k].saved.tz.text)

\* how many parsers wait below frame k: 0 for the frames of parse(text)'s
\* parser, 1 for those of a parser embedded in one of its lists
Embedding(k) == Cardinality({m \in 1..(k - 1) : Waiting(stack[m])})

\* the characters a parser has not consumed yet: those from the start of its
\* current token on; before its first _advance, all and one more
Unread(t, sp) ==
    IF sp = << >> THEN Len(t.text) + 1 ELSE Len(t.text) - sp[Len(sp)][1]

\* the lines after the first i, each counted with its line break
RECURSIVE LinesLeft(_, _)
LinesLeft(lines, i) ==
    IF i >= Len(lines) THEN 0
    ELSE Len(lines[i + 1]) + 1 + LinesLeft(lines, i + 1)

\* what a unit of pending input is worth: a character a parser has not
\* consumed, a character a list has collected, a line (per character and
\* line break) a list has not processed.  A character is worth more than the
\* collected character it becomes, that more than the line character it
\* becomes, that more than the character of the embedded text it becomes
CharWorth(d) == IF d = 0 THEN 256 ELSE IF d = 1 THEN 32 ELSE 0
CollectedWorth(d) == IF d = 0 THEN 128 ELSE 0
LineWorth(d) == IF d = 0 THEN 64 ELSE 0

\* the pending input frame k holds
Pending(k) ==
    LET f == stack[k]
        d == Embedding(k)
    IN CASE f.fn = "parse_list" -> CollectedWorth(d) * Len(join(f.content_parts))
         [] f.fn = "process_unordered_list" -> LineWorth(d) * LinesLeft(f.lines, f.idx)
         [] f.fn = "process_ordered_list" /\ ~Waiting(f) ->
                LineWorth(d) * LinesLeft(f.lines, f.i)
         [] Waiting(f) ->
                LineWorth(d) * LinesLeft(f.lines, f.j)
                    + CharWorth(d) * Unread(f.saved.tz, f.saved.spans)
         [] OTHER -> 0

\* the steps frame k can take where it stands without consuming anything
Phase(k) ==
    LET f == stack[k]
        called == k < Len(stack) /\ stack[k + 1].pc = "enter"
    IN CASE f.fn = "parse" ->
                (CASE f.pc = "init" -> 12 [] f.pc = "start" -> 11
                   [] f.pc = "head_ret" -> 8 [] OTHER -> 1)
         [] f.fn = "parse_block" ->
                (CASE f.pc = "skip" -> 10 [] f.pc = "head_ret" -> 8 [] OTHER -> 1)
         [] f.fn = "parse_content" ->
                (CASE f.pc = "loop" -> 5
                   [] f.pc = "append_ret" /\ called -> 3
                   [] OTHER -> 6)
         [] Waiting(f) -> 2
         [] OTHER -> 1

RECURSIVE RankOfFrames(_)
RankOfFrames(k) ==
    IF k = 0 THEN 0 ELSE Pending(k) + Phase(k) + RankOfFrames(k - 1)

\* a natural number that bounds the steps parse(text) has left: while an
\* exception propagates, the frames it has to leave; else the pending input
\* of the running parser and of every frame, and the frames' own steps
Rank ==
    IF outcome # "running" \/ exc # NoExc \/ tkerr THEN Len(stack)
    ELSE 1 + CharWorth(Embedding(Len(stack) + 1)) * Unread(tz, spans)
           + RankOfFrames(Len(stack))

\* C22: parse(text) terminates: every step makes the rank, a natural number,
\* smaller.  Every iteration that stays in its loop has consumed a token (the
\* tokenizer having moved on by a character at least) or a line; a routine
\* called from an iteration consumes its opening tag, and the embedded parse
\* of an ordered list skips a line at least and runs on a strictly shorter
\* text
C22_ParsingTerminates ==
    /\ [][Rank' < Rank]_vars
    /\ [][IterationStays => IterationConsumes]_vars
    /\ [](CalleeConsumes /\ SubParseShorter)

\* C22 witness: a parse that has run an embedded parse inside an ordered list
\* has ended with the tree, all text tokenized
C22_Witness ==
    /\ input = SampleOrdered
    /\ outcome = "returned"
    /\ stack = << >>
    /\ tz.gen = "finished"
    /\ tz.pos = Len(input)
    /\ Rank = 0

----------------------------------------------------------------------------
(* C23: stray tags in content                                              *)

\* tok is a tag the content loop awaiting until_tag has no branch for: not a
\* head, block, dict or list opening tag, not the awaited closing tag
StrayTag(tok, until_tag) ==
    /\ tok.type \in {TAG_OPEN, TAG_CLOSE}
    /\ ~(tok.type = TAG_OPEN /\ tok.tag_name \in {HEAD, BLOCK, DICT, LIST})
    /\ ~(until_tag # NoTag /\ tok.type = TAG_CLOSE /\ tok.tag_name = until_tag)

\* the text and newline tokens among tokens a..b, as the content loop
\* buffers them
RECURSIVE Buffered(_, _, _)
Buffered(toks, a, b) ==
    IF a > b THEN << >>
    ELSE (IF toks[a].type \in {TEXT, NEWLINE} THEN <<toks[a].value>> ELSE << >>)
         \o Buffered(toks, a + 1, b)

\* parse(text) has returned the tree of a document that holds text, newlines
\* and stray tags only
ReturnedStrayDocument ==
    /\ outcome = "returned"
    /\ \A s \in 1..Len(yielded) :
          \/ yielded[s].type \in {TEXT, NEWLINE, EOF}
          \/ StrayTag(yielded[s], NoTag)

\* s is one paragraph of text: not blank, and without a blank line inside
OneParagraph(s) ==
    Len(ParagraphsOf(<<s>>)) = 1

\* C23 as stated: when a stray tag stands between two pieces of text, each
\* one paragraph, the document's body is one text node that holds both
C23_StrayTagJoinsText ==
    ReturnedStrayDocument =>
        \A s \in 1..Len(yielded) :
            ( /\ StrayTag(yielded[s], NoTag)
              /\ OneParagraph(join(Buffered(yielded, 1, s - 1)))
              /\ OneParagraph(join(Buffered(yielded, s + 1, Len(yielded)))) ) =>
                Len(result.body) = 1

\* C23, amended: at a stray tag the content loop takes the next token and
\* nothing else happens: no frame changes (no node is added, the pending text
\* is neither changed nor flushed) and nothing is raised; so the body of a
\* document of text and stray tags is the paragraphs of its text with the
\* tags left out, flushed as one buffer: the blank lines of that buffer,
\* those the tag's removal makes included, separate the text nodes
C23_StrayTagIsSkipped ==
    /\ [][ (At("parse_content", "loop") /\ StrayTag(current, top.until_tag)) =>
              /\ stack' = stack
              /\ exc' = NoExc /\ raised' = raised /\ outcome' = outcome
              /\ yielded' = Append(yielded, current')
              /\ current' # current
         ]_vars
    /\ [](ReturnedStrayDocument =>
              result.body = ParagraphsOf(Buffered(yielded, 1, Len(yielded))))

\* C23 witness: the text on the two sides of a closing tag that closes
\* nothing has been returned as one text node
C23_Witness ==
    /\ input = <<"a">> \o CloseTag(DICT) \o <<"a">>
    /\ outcome = "returned"
    /\ result.body = <<TextNode(<<"a", "a">>)>>

----------------------------------------------------------------------------
(* C24: the ancestor stack of an ordered list                              *)

\* the item an entry of the ancestor stack of frame f refers to
StackItem(f, a) == item_at(f.root_items, f.ostack[a].path)

\* the ancestor stack of frame f: each entry refers to the item of its
\* number, and the dot counts strictly increase from bottom to top
StackAscends(f) ==
    /\ \A a \in 1..Len(f.ostack) : StackItem(f, a).number = f.ostack[a].number
    /\ \A a, b \in 1..Len(f.ostack) :
          a < b => Dots(f.ostack[a].number) < Dots(f.ostack[b].number)

\* the top of a non-empty ancestor stack of frame f is the item created last:
\* the last of the items in order, with the number and the text of the last
\* numbered line among the lines processed, and without child items so far
TopIsNewest(f) ==
    f.ostack # << >> =>
        LET its == ItemsInOrder(f.root_items)
            numbered == NumberedLines(f.lines, LineRoles(f.lines, 1, FALSE), f.i)
            newest == StackItem(f, Len(f.ostack))
        IN /\ numbered # << >>
           /\ Len(its) = Len(numbered)
           /\ newest = its[Len(its)]
           /\ newest.number = numbered[Len(numbered)].number
           /\ newest.head = numbered[Len(numbered)].head
           /\ KidsOf(newest.body) = << >>

\* from items a to items b, no item that has a child item has received
\* anything but child items: its body has the same length, the same text and
\* dict nodes, and ends with the list of its child items
ParentsKeepOwnNodes(a, b) ==
    LET ia == ItemsInOrder(a)
        ib == ItemsInOrder(b)
    IN \A m \in 1..Len(ia) :
           KidsOf(ia[m].body) # << >> =>
               /\ m <= Len(ib)
               /\ ib[m].number = ia[m].number
               /\ Len(ib[m].body) = Len(ia[m].body)
               /\ OwnNodes(ib[m].body) = OwnNodes(ia[m].body)
               /\ ib[m].body[Len(ib[m].body)].kind = "list"

\* C24: at every step of the processing of an ordered list the ancestor
\* stack holds items whose dot counts strictly increase from bottom to top,
\* and when it is not empty its top is the item created last; and no step
\* gives text or dict content to an item that has a child item
C24_AncestorStack ==
    /\ [](\A k \in 1..Len(stack) :
              stack[k].fn = "process_ordered_list" =>
                  StackAscends(stack[k]) /\ TopIsNewest(stack[k]))
    /\ [][\A k \in 1..Len(stack) :
              (k <= Len(stack') /\ stack[k].fn = "process_ordered_list"
                                /\ stack'[k].fn = "process_ordered_list") =>
                  ParentsKeepOwnNodes(stack[k].root_items, stack'[k].root_items)
         ]_vars

\* C24 witness: after the lines 1., text, 1.1., 1. the stack holds the second
\* item 1. alone, and the first item 1. holds its text before its child 1.1.
C24_Witness ==
    /\ input = OpenTag(LIST) \o <<NL>>
               \o <<"1", ".", " ", "a", NL>>
               \o <<" ", "t", NL>>
               \o <<"1", ".", "1", ".", " ", "b", NL>>
               \o <<"1", ".", " ", "a", NL>>
               \o CloseTag(LIST)
    /\ At("process_ordered_list", "loop")
    /\ top.i = 4
    /\ Len(top.ostack) = 1
    /\ top.ostack[1].path = <<2>>
    /\ top.root_items =
          <<Block(<<"1">>, <<"a">>,
                  <<TextNode(<<"t">>),
                    ListBlock(<<Block(<<"1", ".", "1">>, <<"b">>, << >>)>>)>>),
            Block(<<"1">>, <<"a">>, << >>)>>
=============================================================================
